---- MODULE Spec2Model ----
(***************************************************************************)
(* Sentinel orchestrator: session store (Redis keys SESSION, KEYBOARD_STATE,*)
(* MOUSE_STATE, EVAL_DEDUP), the stream and evaluate handlers that run      *)
(* against it concurrently, and the per-user model store with its learner.  *)
(*                                                                          *)
(* Units: time in milliseconds; risks, scores, trust and confidences in     *)
(* thousandths (1000 = 1.0); strikes in half strikes (2 = one strike).      *)
(* A request is handled by a worker; a worker's steps are the store         *)
(* operations of the handler, each taken atomically together with the local *)
(* computation that follows it.                                             *)
(***************************************************************************)
EXTENDS Integers, Sequences, FiniteSets, TLC

(***************************************************************************)
(* Bounds of the model                                                      *)
(***************************************************************************)
MaxStreamReqs == 3
MaxBatch == 3
MaxCasReqs == 6
MaxCasBatch == 5
MaxNow == 30000
MaxBufReqs == 3
MaxLearns == 5
MaxEvalReqs == 4
MaxCascadeReqs == 5
MaxEvalCasReqs == 7
MaxEvalCasPrefix == 3

(***************************************************************************)
(* Program constants                                                        *)
(***************************************************************************)
SESSION_MAX_RETRIES == 5
MAX_PENDING_EVENTS == 50
MAX_COMPLETED_ITEMS == 20
WINDOW_SIZE == 50
WINDOW_STRIDE == 5
GAP_TOLERANCE == 10
EVAL_DEDUP_TTL_MS == 60000
ONE == 1000
RISK_EPSILON == 1
MODEL_MAX_RETRIES == 3

\* two requests at a time are in progress
Workers == {1, 2}
TickMs == 10000
StartTime == 10000

Max2(a, b) == IF a >= b THEN a ELSE b
Min2(a, b) == IF a <= b THEN a ELSE b

\* xs[-n:] of Python: the last n elements of xs
LastN(xs, n) ==
    IF Len(xs) <= n THEN xs ELSE SubSeq(xs, Len(xs) - n + 1, Len(xs))

(***************************************************************************)
(* Keyboard extractor: emission depends on the DOWN counter only            *)
(***************************************************************************)
\* an event is [k |-> "D" | "U", t |-> timestamp]
Ev(kind, ts) == [k |-> kind, t |-> ts]

\* n key presses, each a DOWN followed by its UP, all stamped ts
Typing(n, ts) ==
    [i \in 1..(2 * n) |-> Ev(IF i % 2 = 1 THEN "D" ELSE "U", ts)]

\* _keystroke_count after the first i events of es, starting from count
KeystrokeCountAfter(count, es, i) ==
    count + Cardinality({j \in 1..i : es[j].k = "D"})

ShouldEmitMut(count, e) ==
    /\ count >= WINDOW_SIZE
    /\ (count = WINDOW_SIZE \/ (count - WINDOW_SIZE) % WINDOW_STRIDE = 0)
\* process_event's verdict for event e once the counter (after e) is count
ShouldEmit(count, e) ==
    /\ count >= WINDOW_SIZE
    /\ (count = WINDOW_SIZE \/ (count - WINDOW_SIZE) % WINDOW_STRIDE = 0)
    /\ e.k = "D"

\* Feed events es to a processor whose counter is count.  Result: the final
\* counter and the list of emissions, each [idx, t, n]: position in es, the
\* event's timestamp and the counter value at which the window was emitted.
ProcessEvents(count, es) ==
    LET at(i) == KeystrokeCountAfter(count, es, i)
        all == [i \in 1..Len(es) |-> [idx |-> i, t |-> es[i].t, n |-> at(i)]]
        hit(x) == ShouldEmit(x.n, es[x.idx])
    IN  [count |-> at(Len(es)), emits |-> SelectSeq(all, hit)]

(***************************************************************************)
(* Stored records                                                           *)
(***************************************************************************)
NoSession == [exists |-> FALSE]
NONE == -1

\* SessionState(last_activity_ts = t, last_strike_decay_ts = t)
NewSession(t) ==
    [ exists |-> TRUE,
      mode |-> "NORMAL",
      strikes |-> 0,
      last_activity_ts |-> t,
      last_verified_ts |-> 0,
      last_keyboard_batch_id |-> 0,
      last_mouse_batch_id |-> 0,
      learning_suspended_until |-> 0,
      last_clean_activity_ts |-> NONE,
      consecutive_allows |-> 0,
      last_strike_decay_ts |-> t,
      challenge_entered_ts |-> 0,
      last_decision |-> "NONE",
      last_risk |-> NONE,
      last_eval_ts |-> NONE,
      last_eval_id |-> "NONE",
      trust_score |-> 0,
      last_context_change_ts |-> 0,
      keyboard_window_count |-> 0,
      keyboard_first_window_ts |-> 0,
      identity_ready |-> FALSE ]

NewKeyboardState ==
    [ completed_windows |-> << >>, pending_events |-> << >>,
      last_score |-> 0, last_event_ts |-> 0 ]

NewMouseState ==
    [ completed_strokes |-> << >>, pending_events |-> << >>,
      last_score |-> 0, last_event_ts |-> 0 ]

(***************************************************************************)
(* Fixed-point arithmetic                                                   *)
(***************************************************************************)
\* e^(-num/den) in thousandths, by 1 / (1 + x + x^2/2); 1000 at x = 0,
\* strictly below 1000 and decreasing for x > 0
ExpNeg(num, den) ==
    LET r == Min2((num * 1000) \div den, 20000)
    IN  (ONE * 2000) \div (2000 + 2 * r + (r * r) \div 1000)

DECAY_TIME_CONSTANT_MS == 45000

\* _apply_decay(prev_score, prev_event_ts, current_event_ts)
ApplyDecay(prev_score, prev_event_ts, current_event_ts) ==
    IF prev_event_ts <= 0 THEN prev_score
    ELSE IF current_event_ts - prev_event_ts <= 0 THEN prev_score
    ELSE (prev_score * ExpNeg(current_event_ts - prev_event_ts,
                              DECAY_TIME_CONSTANT_MS)) \div ONE

\* max(acc, max of the events' timestamps)
MaxTs(es, acc) ==
    LET ts == {es[i].t : i \in 1..Len(es)} \cup {acc}
    IN  CHOOSE m \in ts : \A x \in ts : x <= m

(***************************************************************************)
(* process_keyboard_stream: the computation between the reads and the       *)
(* commit.  s0, k0: the session and keyboard state as read; p: the payload  *)
(* (batch_id, events, score returned by the HST scorer);                    *)
(* t: time.time().                                                          *)
(***************************************************************************)
IsReplayMut(batch_id, last_batch_id) == batch_id < last_batch_id

\* the high-water-mark check of both stream handlers
IsReplay(batch_id, last_batch_id) == batch_id <= last_batch_id

\* the scoring loop over features_list[i..]
RECURSIVE ScoreWindows(_, _, _, _, _, _, _)
ScoreWindows(feats, i, s, k, prev_event_ts, p, t) ==
    IF i > Len(feats) THEN [sess |-> s, kb |-> k]
    ELSE LET prev == k.last_score
             decayed == IF t < s.learning_suspended_until THEN prev
                        ELSE ApplyDecay(prev, prev_event_ts, feats[i].t)
             win == [b |-> p.batch_id, n |-> feats[i].n,
                     score |-> p.score, event_ts |-> feats[i].t]
             k2 == [k EXCEPT !.last_score = Max2(decayed, p.score),
                             !.completed_windows = Append(@, win)]
             s2 == [s EXCEPT
                      !.keyboard_first_window_ts = IF @ = 0 THEN t ELSE @,
                      !.keyboard_window_count = @ + 1]
         IN  ScoreWindows(feats, i + 1, s2, k2, prev_event_ts, p, t)

NewPendingMut(feats, trimmed, events) == trimmed \o events
\* new_pending: the trimmed pending events and the batch's events, emptied
\* by the scoring loop when there was a window
NewPending(feats, trimmed, events) ==
    IF feats # << >> THEN << >> ELSE trimmed \o events

KbCompute(s0, k0, p, t) ==
    LET gap == p.batch_id - s0.last_keyboard_batch_id
        s1 == IF gap > GAP_TOLERANCE
              THEN [s0 EXCEPT !.strikes = @ + 1,
                              !.keyboard_window_count = 0,
                              !.keyboard_first_window_ts = 0]
              ELSE s0
        k1 == IF gap > GAP_TOLERANCE THEN NewKeyboardState ELSE k0
        rep == ProcessEvents(0, k1.pending_events)
        trimmed == IF rep.emits # << >>
                   THEN SubSeq(k1.pending_events,
                               rep.emits[Len(rep.emits)].idx + 1,
                               Len(k1.pending_events))
                   ELSE k1.pending_events
        new == ProcessEvents(rep.count, p.events)
        feats == rep.emits \o new.emits
        scored == ScoreWindows(feats, 1, s1, k1, k1.last_event_ts, p, t)
        new_pending == NewPending(feats, trimmed, p.events)
    IN  [sess |-> scored.sess,
         kb |-> [scored.kb EXCEPT
                   !.pending_events = new_pending,
                   !.last_event_ts = MaxTs(p.events, k1.last_event_ts)]]

(***************************************************************************)
(* process_mouse_stream.  The stroke segmentation of MouseProcessor is an   *)
(* input: p.strokes lists, in order, the positions in the batch at which a  *)
(* stroke completes; p.score is the PhysicsScorer's verdict (0 or 1000).    *)
(* A mouse event is its position 1..p.n in the batch.                       *)
(***************************************************************************)
RECURSIVE MouseStrokes(_, _, _, _)
MouseStrokes(strokes, i, m, p) ==
    IF i > Len(strokes) THEN m
    ELSE MouseStrokes(strokes, i + 1,
            [m EXCEPT !.last_score = Max2(@, p.score),
                      !.completed_strokes =
                          Append(@, [b |-> p.batch_id, n |-> strokes[i],
                                     score |-> p.score, event_ts |-> p.ts])],
            p)

MsCompute(s0, m0, p) ==
    LET gap == p.batch_id - s0.last_mouse_batch_id
        s1 == IF gap > GAP_TOLERANCE THEN [s0 EXCEPT !.strikes = @ + 1] ELSE s0
        m1 == IF gap > GAP_TOLERANCE THEN NewMouseState ELSE m0
        m2 == MouseStrokes(p.strokes, 1, m1, p)
        from == IF p.strokes = << >> THEN 1 ELSE p.strokes[Len(p.strokes)] + 1
        new_pending == [j \in 1..(p.n - from + 1) |-> from + j - 1]
    IN  [sess |-> s1,
         ms |-> [m2 EXCEPT
                   !.pending_events = new_pending,
                   !.last_event_ts = IF p.n > 0 THEN Max2(@, p.ts) ELSE @]]

(***************************************************************************)
(* update_*_stream_atomic: buffer caps and the session transformer          *)
(***************************************************************************)
CapKeyboardMut(k) ==
    [k EXCEPT !.completed_windows = LastN(@, MAX_COMPLETED_ITEMS)]

CapKeyboard(k) ==
    [k EXCEPT !.completed_windows = LastN(@, MAX_COMPLETED_ITEMS),
              !.pending_events = LastN(@, MAX_PENDING_EVENTS)]

CapMouse(m) ==
    [m EXCEPT !.completed_strokes = LastN(@, MAX_COMPLETED_ITEMS),
              !.pending_events = LastN(@, MAX_PENDING_EVENTS)]

\* the session loaded inside the transaction: raw, or defaults when missing
LoadOrDefault(raw, t) == IF raw.exists THEN raw ELSE NewSession(t)

\* update_session closure of process_keyboard_stream
KbUpdateSession(s, r, t) ==
    [s EXCEPT !.last_keyboard_batch_id = r.batch_id,
              !.last_activity_ts = t,
              !.keyboard_window_count = r.sess.keyboard_window_count,
              !.keyboard_first_window_ts = r.sess.keyboard_first_window_ts]

\* update_session closure of process_mouse_stream
MsUpdateSession(s, r, t) ==
    [s EXCEPT !.last_mouse_batch_id = r.batch_id,
              !.last_activity_ts = t]

(***************************************************************************)
(* evaluate: the navigator policy engine                                    *)
(***************************************************************************)
POLICY_MAX_VELOCITY == 500
POLICY_BLOCK_THRESHOLD == 850
POLICY_CHALLENGE_THRESHOLD == 500

\* PolicyEngine.evaluate, the risk score.  The metrics m: geo_velocity_mph
\* in mph; device_ip_mismatch, policy_violation, is_new_device in
\* thousandths
PolicyRisk(m) ==
    LET velocity_risk ==
            Min2((m.geo_velocity_mph * ONE) \div POLICY_MAX_VELOCITY, ONE)
        device_risk == m.is_new_device \div 2
        risk_score == Max2(Max2(velocity_risk, m.device_ip_mismatch),
                           Max2(m.policy_violation, device_risk))
    IN  Min2(Max2(risk_score, 0), ONE)

\* PolicyEngine.evaluate, the decision
PolicyDecision(risk_score) ==
    IF risk_score >= POLICY_BLOCK_THRESHOLD THEN "BLOCK"
    ELSE IF risk_score >= POLICY_CHALLENGE_THRESHOLD THEN "CHALLENGE"
    ELSE "ALLOW"

(***************************************************************************)
(* evaluate: helpers of the orchestrator                                    *)
(***************************************************************************)
TRUSTED_THRESHOLD == 750
TRUSTED_IDENTITY_MULTIPLIER == 600
TRUSTED_KEYBOARD_MULTIPLIER == 800
TRUSTED_HYSTERESIS_ALLOWS == 3
TRUSTED_HYSTERESIS_TIME_MS == 10000
LEARNING_SUSPENSION_DURATION_MS == 30000
SUSPENSION_RECOVERY_WINDOW_MS == 60000
STRIKE_DECAY_INTERVAL_MS == 10000
MAX_STRIKE_DECAY_INTERVALS == 6
CHALLENGE_HYSTERESIS_TIME_MS == 20000
CHALLENGE_HYSTERESIS_ALLOWS == 5
TRUST_INACTIVITY_HALFLIFE_MS == 300000
TRUST_UPDATE_COEFFICIENT == 120
IDENTITY_MODEL_SAMPLES_REQUIRED == 150
IDENTITY_MIN_WINDOWS == 3
IDENTITY_MAX_WINDOWS == 5
IDENTITY_CONTRADICTION_THRESHOLD == 950
IDENTITY_CONTRADICTION_CONFIDENCE == 600
IDENTITY_IMMATURE_GUARD_THRESHOLD == 980
KEYBOARD_TIME_MATURITY_MS == 20000
KEYBOARD_COUNT_MATURITY == 15
CONTEXT_STABILITY_DELAY_MS == 30000
HST_COLD_START_WINDOWS == 50

\* strikes are counted in half strikes
STRIKES_FORCE_BLOCK == 6
STRIKES_PER_BLOCK == 4
STRIKES_PER_CHALLENGE == 2

\* WEIGHTS[mode] and THRESHOLDS[mode]
Weights(mode) ==
    IF mode = "NORMAL"
    THEN [keyboard |-> 700, mouse |-> 900, navigator |-> 1000, identity |-> 650]
    ELSE [keyboard |-> 850, mouse |-> 1000, navigator |-> 1000, identity |-> 850]

Thresholds(mode) ==
    IF mode = "NORMAL" THEN [allow |-> 500, challenge |-> 850]
    ELSE [allow |-> 400, challenge |-> 750]

TrustedThresholds == [allow |-> 600, challenge |-> 920]

\* math.sqrt on thousandths: the root of n / 10^6, in thousandths
ISqrt(n) == CHOOSE k \in 0..ONE : k * k <= n /\ (k + 1) * (k + 1) > n

\* _update_learning_suspension
UpdateLearningSuspension(s, navigator_risk, t) ==
    IF navigator_risk >= 850
    THEN [s EXCEPT !.learning_suspended_until =
                       t + LEARNING_SUSPENSION_DURATION_MS,
                   !.last_clean_activity_ts = NONE]
    ELSE IF navigator_risk < 500
    THEN IF s.last_clean_activity_ts = NONE
         THEN [s EXCEPT !.last_clean_activity_ts = t]
         ELSE IF t - s.last_clean_activity_ts >= SUSPENSION_RECOVERY_WINDOW_MS
         THEN [s EXCEPT !.learning_suspended_until = 0,
                        !.last_clean_activity_ts = t]
         ELSE s
    ELSE [s EXCEPT !.last_clean_activity_ts = NONE]

\* _apply_strike_decay: half a strike per interval
ApplyStrikeDecay(s, t) ==
    LET intervals ==
            Min2((t - s.last_strike_decay_ts) \div STRIKE_DECAY_INTERVAL_MS,
                 MAX_STRIKE_DECAY_INTERVALS)
    IN  IF intervals > 0
        THEN [s EXCEPT !.strikes = Max2(0, @ - intervals),
                       !.last_strike_decay_ts = t]
        ELSE s

\* _apply_keyboard_confidence
ApplyKeyboardConfidence(raw_risk, s, t) ==
    LET conf_time ==
            IF s.keyboard_first_window_ts > 0
            THEN Min2(ONE, ((t - s.keyboard_first_window_ts) * ONE)
                              \div KEYBOARD_TIME_MATURITY_MS)
            ELSE 0
        conf_count ==
            Min2(ONE, (s.keyboard_window_count * ONE)
                         \div KEYBOARD_COUNT_MATURITY)
        confidence == IF conf_time > 0 /\ conf_count > 0
                      THEN ISqrt(conf_time * conf_count) ELSE 0
    IN  (raw_risk * confidence) \div ONE

\* _apply_trust_inactivity_decay
ApplyTrustInactivityDecay(s, t) ==
    IF s.last_verified_ts > 0
    THEN [s EXCEPT !.trust_score =
             (@ * ExpNeg(t - s.last_verified_ts,
                         TRUST_INACTIVITY_HALFLIFE_MS)) \div ONE]
    ELSE s

\* _compute_identity_risk; score is the mean of score_one over the windows
ComputeIdentityRisk(k, stored_model, score) ==
    LET windows == LastN(k.completed_windows, IDENTITY_MAX_WINDOWS)
        cold == [identity_risk |-> 0, identity_confidence |-> 0,
                 cold_start_identity |-> TRUE]
        identity_confidence ==
            Min2(ONE, (stored_model.feature_window_count * ONE)
                         \div IDENTITY_MODEL_SAMPLES_REQUIRED)
    IN  IF Len(windows) < IDENTITY_MIN_WINDOWS THEN cold
        ELSE IF ~stored_model.exists THEN cold
        ELSE IF identity_confidence = 0 THEN cold
        ELSE [identity_risk |-> Min2(ONE, Max2(0, score)),
              identity_confidence |-> identity_confidence,
              cold_start_identity |-> FALSE]

UpdateStrikesFlat(s, decision) ==
    IF decision = "ALLOW" THEN [s EXCEPT !.consecutive_allows = @ + 1]
    ELSE [s EXCEPT !.strikes = @ + STRIKES_PER_BLOCK,
                   !.consecutive_allows = 0,
                   !.trust_score = IF decision = "BLOCK" THEN 0 ELSE @]
UpdateStrikesMut(s, decision) ==
    IF decision = "BLOCK"
    THEN [s EXCEPT !.strikes = @ + STRIKES_PER_BLOCK,
                   !.consecutive_allows = 0]
    ELSE IF decision = "CHALLENGE"
    THEN [s EXCEPT !.strikes = @ + STRIKES_PER_CHALLENGE,
                   !.consecutive_allows = 0]
    ELSE [s EXCEPT !.consecutive_allows = @ + 1]

\* _update_strikes
UpdateStrikes(s, decision) ==
    IF decision = "BLOCK"
    THEN [s EXCEPT !.strikes = @ + STRIKES_PER_BLOCK,
                   !.consecutive_allows = 0,
                   !.trust_score = 0]
    ELSE IF decision = "CHALLENGE"
    THEN [s EXCEPT !.strikes = @ + STRIKES_PER_CHALLENGE,
                   !.consecutive_allows = 0]
    ELSE [s EXCEPT !.consecutive_allows = @ + 1]

\* _update_trust
UpdateTrust(s, final_risk, identity_risk) ==
    IF identity_risk >= 900 THEN [s EXCEPT !.trust_score = 0]
    ELSE LET trust_delta ==
                 (TRUST_UPDATE_COEFFICIENT * (500 - final_risk)) \div ONE
         IN  [s EXCEPT !.trust_score = Max2(0, Min2(ONE, @ + trust_delta))]

\* _update_mode
UpdateMode(s, decision, hysteresis_allows, hysteresis_time, t) ==
    IF decision = "CHALLENGE" /\ s.mode = "NORMAL"
    THEN [s EXCEPT !.mode = "CHALLENGE",
                   !.challenge_entered_ts = t,
                   !.consecutive_allows = 0]
    ELSE IF s.mode = "CHALLENGE"
            /\ s.consecutive_allows >= hysteresis_allows
            /\ t - s.challenge_entered_ts >= hysteresis_time
    THEN [s EXCEPT !.mode = "NORMAL", !.consecutive_allows = 0]
    ELSE s

LearningSuspendedMut(s, t) == FALSE
\* "now < session.learning_suspended_until"
LearningSuspended(s, t) == t < s.learning_suspended_until

\* _should_learn_identity
ShouldLearnIdentity(s, navigator_risk, t) ==
    /\ s.mode = "NORMAL"
    /\ ~LearningSuspended(s, t)
    /\ navigator_risk < 500
    /\ s.trust_score >= 650
    /\ s.consecutive_allows >= 5
    /\ t - s.last_context_change_ts >= CONTEXT_STABILITY_DELAY_MS

StrikesOutMut(strikes) == strikes > STRIKES_FORCE_BLOCK

\* "Force BLOCK if strikes >= 3"
StrikesOut(strikes) == strikes >= STRIKES_FORCE_BLOCK

\* evaluate, the trusted-session modifiers, the identity weight scaling and
\* the four weighted risks
WeightedRisks(mode, is_trusted, keyboard_risk, mouse_risk, navigator_risk, idn) ==
    LET weights == Weights(mode)
        kb_risk == IF is_trusted
                   THEN (keyboard_risk * TRUSTED_KEYBOARD_MULTIPLIER) \div ONE
                   ELSE keyboard_risk
        w_identity0 == IF is_trusted
                       THEN (weights.identity * TRUSTED_IDENTITY_MULTIPLIER)
                               \div ONE
                       ELSE weights.identity
        effective_identity_risk ==
            (idn.identity_risk * idn.identity_confidence) \div ONE
        w_identity ==
            (w_identity0 * ISqrt(idn.identity_confidence * ONE)) \div ONE
    IN  [ keyboard |-> (kb_risk * weights.keyboard) \div ONE,
          mouse |-> (mouse_risk * weights.mouse) \div ONE,
          navigator |-> (navigator_risk * weights.navigator) \div ONE,
          identity |-> (effective_identity_risk * w_identity) \div ONE ]

FuseRiskMut(wr) == wr.keyboard + wr.mouse + wr.navigator + wr.identity

\* final_risk: the weighted MAX fusion and its clamp
FuseRisk(wr) ==
    Max2(0, Min2(ONE, Max2(Max2(wr.keyboard, wr.mouse),
                           Max2(wr.navigator, wr.identity))))

\* "stored_hst is None or stored_hst.feature_window_count < 50"
HstIsCold(hst) ==
    ~hst.exists \/ hst.feature_window_count < HST_COLD_START_WINDOWS

ColdStartOverrideMut(hst, fused, k) == fused
\* the cold start override of evaluate: an ALLOW without fresh windows
\* becomes CHALLENGE while the HST model is immature
ColdStartOverride(hst, fused, k) ==
    IF HstIsCold(hst) /\ fused = "ALLOW" /\ k.completed_windows = << >>
    THEN "CHALLENGE" ELSE fused

\* evaluate from the hard-block cascade to the decision.  s: the session
\* after the decays; keyboard_risk, mouse_risk, navigator_risk: the component
\* risks; nav_decision: the policy engine's decision; idn: the result of
\* _compute_identity_risk; hst: the row load_model returns; k: keyboard state
EvalFuse(s, keyboard_risk, mouse_risk, nav_decision, navigator_risk, idn, hst, k) ==
    LET is_trusted == s.trust_score >= TRUSTED_THRESHOLD
        out(s1, decision, risk, ha, ht) ==
            [ sess |-> s1, decision |-> decision, risk |-> risk,
              navigator_risk |-> navigator_risk,
              identity_risk |-> idn.identity_risk,
              hysteresis_allows |-> ha, hysteresis_time |-> ht ]
        blocked == out([s EXCEPT !.trust_score = 0], "BLOCK", ONE,
                       CHALLENGE_HYSTERESIS_ALLOWS,
                       CHALLENGE_HYSTERESIS_TIME_MS)
        thresholds == IF is_trusted THEN TrustedThresholds
                      ELSE Thresholds(s.mode)
        final_risk ==
            FuseRisk(WeightedRisks(s.mode, is_trusted, keyboard_risk,
                                   mouse_risk, navigator_risk, idn))
        cold(fused) == ColdStartOverride(hst, fused, k)
        decide(risk) ==
            out(s, cold(IF risk < thresholds.allow THEN "ALLOW"
                        ELSE IF risk < thresholds.challenge THEN "CHALLENGE"
                        ELSE "BLOCK"),
                risk,
                IF is_trusted THEN TRUSTED_HYSTERESIS_ALLOWS
                ELSE CHALLENGE_HYSTERESIS_ALLOWS,
                IF is_trusted THEN TRUSTED_HYSTERESIS_TIME_MS
                ELSE CHALLENGE_HYSTERESIS_TIME_MS)
    IN  IF StrikesOut(s.strikes) THEN blocked
        ELSE IF mouse_risk >= ONE - RISK_EPSILON THEN blocked
        ELSE IF nav_decision = "BLOCK" THEN blocked
        ELSE IF idn.identity_confidence >= IDENTITY_CONTRADICTION_CONFIDENCE
                /\ idn.identity_risk >= IDENTITY_CONTRADICTION_THRESHOLD
        THEN blocked
        ELSE IF s.identity_ready
                /\ idn.identity_confidence < IDENTITY_CONTRADICTION_CONFIDENCE
                /\ idn.identity_risk >= IDENTITY_IMMATURE_GUARD_THRESHOLD
        THEN out(s, "CHALLENGE", idn.identity_risk,
                 CHALLENGE_HYSTERESIS_ALLOWS, CHALLENGE_HYSTERESIS_TIME_MS)
        ELSE decide(final_risk)

\* evaluate from the navigator risk to the decision.  s0, k, m: session,
\* keyboard and mouse state as read; trusted_context: whether
\* get_trusted_context found one; hst, idm: the rows load_model returns;
\* p: the payload (p.nav the context metrics, p.idscore the identity
\* model's mean score of the windows); t: time.time()
EvalDecide(s0, k, m, trusted_context, hst, idm, p, t) ==
    LET nav_risk == PolicyRisk(p.nav)
        navigator_risk == IF ~trusted_context /\ nav_risk = 500
                          THEN 0 ELSE nav_risk
        s1 == IF navigator_risk >= 500
              THEN [s0 EXCEPT !.last_context_change_ts = t] ELSE s0
        s3 == ApplyStrikeDecay(
                  UpdateLearningSuspension(s1, navigator_risk, t), t)
    IN  EvalFuse(ApplyTrustInactivityDecay(s3, t),
                 ApplyKeyboardConfidence(k.last_score, s3, t),
                 m.last_score, PolicyDecision(nav_risk), navigator_risk,
                 ComputeIdentityRisk(k, idm, p.idscore), hst, k)

EvalFinalizeMut(d, k, hst, t) ==
    LET s1 == UpdateStrikes(d.sess, d.decision)
        s2 == UpdateMode(s1, d.decision, d.hysteresis_allows,
                         d.hysteresis_time, t)
        s3 == UpdateTrust(s2, d.risk, d.identity_risk)
        plan == IF d.decision = "ALLOW" /\ t >= s3.learning_suspended_until
                THEN IF k.completed_windows # << >> THEN "hst_allow"
                     ELSE "none"
                ELSE IF d.decision = "CHALLENGE" /\ k.completed_windows # << >>
                THEN "hst_boot"
                ELSE "none"
    IN  [sess |-> s3, plan |-> plan]

\* _finalize_evaluate up to the HST learning: strikes, mode, trust, and which
\* learn_with_retry call follows ("hst_allow": the ALLOW branch,
\* "hst_boot": the bootstrap on CHALLENGE, "none")
EvalFinalize(d, k, hst, t) ==
    LET s1 == UpdateStrikes(d.sess, d.decision)
        s2 == UpdateMode(s1, d.decision, d.hysteresis_allows,
                         d.hysteresis_time, t)
        s3 == UpdateTrust(s2, d.risk, d.identity_risk)
        hst_is_cold == HstIsCold(hst)
        hst_mode_ok == s3.mode = "NORMAL" \/ hst_is_cold
        plan == IF d.decision = "ALLOW" /\ hst_mode_ok
                   /\ ~LearningSuspended(s3, t)
                THEN IF k.completed_windows # << >> THEN "hst_allow"
                     ELSE "none"
                ELSE IF d.decision = "CHALLENGE" /\ k.completed_windows # << >>
                THEN IF hst_is_cold THEN "hst_boot" ELSE "none"
                ELSE "none"
    IN  [sess |-> s3, plan |-> plan]

\* _finalize_evaluate: identity_ready and the audit fields
FinishSession(s, decision, risk, eval_id, t) ==
    [s EXCEPT !.identity_ready = IF decision = "ALLOW" THEN TRUE ELSE @,
              !.last_decision = decision,
              !.last_risk = risk,
              !.last_eval_ts = t,
              !.last_verified_ts = t,
              !.last_eval_id = eval_id,
              !.last_activity_ts = t]

(***************************************************************************)
(* State                                                                    *)
(***************************************************************************)
VARIABLES
    now,        \* time.time() * 1000
    session,    \* value of key SESSION:{sid}, or NoSession
    kbState,    \* value of key KEYBOARD_STATE:{sid} (defaults when missing)
    msState,    \* value of key MOUSE_STATE:{sid} (defaults when missing)
    dirty,      \* per worker: a key it WATCHes was written since its WATCH
    req,        \* per worker, the request in progress and its local variables
    nreq,       \* requests issued so far
    hwm,        \* per modality, the highest batch id committed so far
    models,     \* per model type, the row of table user_behavior_models
    locks,      \* per process and model type, the learner holding the lock
    lrn,        \* per learner thread, its learn_with_retry call
    nlearn,     \* learn_with_retry calls made so far
    marks,      \* per eval_id, the expiry time of key EVAL_DEDUP:{eval_id}
    trusted,    \* a trusted context of the user is stored
    first,      \* per eval_id, the response of the call that marked it
    rate,       \* per prefix, the rate-limit counter key of the latest second
    dbrow,      \* a row of user_behavior_models as stored, and what the
                \* last load_model made of it
    extractor,  \* a KeyboardProcessor fed event by event
    profile,    \* the user's known devices: the set PROFILE:{user}:devices
                \* and known_devices of the user's row in user_context
    tracker,    \* a MouseSessionTracker
    stroke,     \* a feature vector and what score_one made of it
    analysis    \* context metrics and what the policy engine made of them

unitVars == << profile, tracker, stroke, analysis >>
modelVars == << models, locks, lrn, nlearn >>
evalVars == << marks, trusted, first, rate, dbrow, extractor, unitVars >>
storeVars == << now, session, kbState, msState, dirty, req, nreq, hwm,
                marks, trusted, first, rate, dbrow, extractor, unitVars >>
vars == << now, session, kbState, msState, dirty, req, nreq, hwm,
           models, locks, lrn, nlearn, marks, trusted, first, rate, dbrow, extractor, unitVars >>

\* context metrics of an evaluate request: an unremarkable one, one with a
\* policy violation, one from a device not seen before, and two with a geo
\* velocity of 300 and of 400 mph
CleanNav == [geo_velocity_mph |-> 0, device_ip_mismatch |-> 0,
             policy_violation |-> 0, is_new_device |-> 0]
ViolationNav == [CleanNav EXCEPT !.policy_violation = ONE]
NewDeviceNav == [CleanNav EXCEPT !.is_new_device = ONE]
TravelNav == [CleanNav EXCEPT !.geo_velocity_mph = 300]
FastTravelNav == [CleanNav EXCEPT !.geo_velocity_mph = 400]

EvalIds == {"e1", "e2"}
NoResp == [decision |-> "NONE", risk |-> NONE, mode |-> "NONE"]

Idle ==
    [ pc |-> "idle", kind |-> "none",
      batch_id |-> 0, events |-> << >>, score |-> 0, ts |-> 0,
      n |-> 0, strokes |-> << >>,
      sess |-> NoSession, kb |-> NewKeyboardState, ms |-> NewMouseState,
      attempt |-> 0, csess |-> NoSession, created |-> FALSE,
      status |-> 0, committed |-> FALSE, exhausted |-> FALSE,
      eval_id |-> "", device |-> 0, nav |-> CleanNav, idscore |-> 0, processed |-> FALSE,
      decision |-> "NONE", risk |-> NONE, mode |-> "NONE",
      navigator_risk |-> 0, plan |-> "none", fnow |-> 0, cached |-> FALSE ]

\* the handler returns: its locals go out of scope, the outcome remains
Return(r, st) ==
    [Idle EXCEPT !.pc = "done", !.kind = r.kind, !.committed = r.committed,
                 !.exhausted = r.exhausted, !.status = st]

\* a request is dispatched to the first worker that is free
Free(w) ==
    /\ req[w].pc \in {"idle", "done"}
    /\ \A v \in Workers : v < w => req[v].pc \notin {"idle", "done"}

\* keyboard payloads: one press; 30 presses (60 events, no window) and
\* 150 presses (21 windows)
KbSmall(t) == { Typing(1, t) }
KbLarge(t) == { Typing(30, t), Typing(150, t) }

\* mouse payloads [n, strokes]: two moves; 291 moves of which the first 231
\* make 21 strokes
MsSmall == { [n |-> 2, strokes |-> << >>] }
MsLarge == { [n |-> 291, strokes |-> [i \in 1..21 |-> 11 * i]] }

\* learner threads 1 and 2 run in process 1, learner 3 in process 2; the
\* lock table _learn_locks is a class attribute, one per process
ModelTypes == {"keyboard_hst", "keyboard_identity"}
Learners == {1, 2, 3}
Procs == {1, 2}
Proc(l) == IF l = 3 THEN 2 ELSE 1

\* load_model returns None when the row is missing
NoModel == [exists |-> FALSE, model_version |-> 0, feature_window_count |-> 0]

\* a rate-limit counter key {prefix}:{sid}:{sec}: the second it is for and
\* its value (0: the key does not exist); passed and open record how many
\* requests of that second passed the check, and how many of them passed
\* because the store call failed
NoKey == [sec |-> 0, count |-> 0, passed |-> 0, open |-> 0]
NoRate == [STREAM_RATE |-> NoKey, EVAL_RATE |-> NoKey]

\* response.data is empty: no row stored
NoChecksum == [present |-> FALSE, digest |-> << >>]
NoRow == [exists |-> FALSE, model_blob |-> << >>, checksum |-> NoChecksum,
          saved |-> NONE, loaded |-> NONE, loads |-> 0, corruptions |-> 0]

\* KeyboardProcessor(): nothing processed; returned tells whether the last
\* process_event returned features, event_type what it was given
FreshExtractor ==
    [_keystroke_count |-> 0, _pending_downs |-> [key \in {"a", "b"} |-> 0],
     _key_presses |-> 0, event_type |-> "none", returned |-> FALSE]

\* no device is known: the set is empty and user_context has no row;
\* allowed: the devices whose evaluates were answered ALLOW so far
NoProfile == [devices |-> {}, known_devices |-> << >>, allowed |-> {}]

\* MouseSessionTracker()
NewTracker == [_strikes |-> 0, _total_strokes |-> 0, _bot_strokes |-> 0,
               _session_flagged |-> FALSE]

\* the values score_one reads for features that are missing, in thousandths
\* (velocity_max in px/ms, path_distance and linearity_error in px, the
\* standard deviations in px/ms and ms)
DefaultFeatures ==
    [velocity_max |-> 0, velocity_std |-> 1000, path_distance |-> 0,
     time_diff_std |-> 10000, segment_count |-> 0, linearity_error |-> 1000]
NoStroke == [features |-> DefaultFeatures, scored |-> FALSE, score |-> 0,
             reasons |-> << >>]

\* nothing evaluated by the policy engine
NoAnalysis == [metrics |-> CleanNav, evaluated |-> FALSE,
               decision |-> "NONE", risk_score |-> 0, anomaly_vectors |-> {}]

IdleLearner ==
    [ pc |-> "idle", mt |-> "none", inc |-> 0, attempt |-> 0,
      stored |-> NoModel, loads |-> 0, saved |-> "none", result |-> "none" ]

Init ==
    /\ now = StartTime
    /\ session = NoSession
    /\ kbState = NewKeyboardState
    /\ msState = NewMouseState
    /\ dirty = [w \in Workers |-> FALSE]
    /\ req = [w \in Workers |-> Idle]
    /\ nreq = 0
    /\ hwm = [K |-> 0, M |-> 0]
    /\ models = [mt \in ModelTypes |-> NoModel]
    /\ locks = [p \in Procs |-> [mt \in ModelTypes |-> 0]]
    /\ lrn = [l \in Learners |-> IdleLearner]
    /\ nlearn = 0
    /\ marks = [e \in EvalIds |-> 0]
    /\ trusted = FALSE
    /\ first = [e \in EvalIds |-> NoResp]
    /\ rate = NoRate
    /\ dbrow = NoRow
    /\ extractor = FreshExtractor
    /\ profile = NoProfile
    /\ tracker = NewTracker
    /\ stroke = NoStroke
    /\ analysis = NoAnalysis

\* the keys worker v has under WATCH
Watched(v) ==
    IF req[v].pc = "e_exec" THEN {"S"}
    ELSE IF req[v].pc # "s_exec" THEN {}
    ELSE IF req[v].kind = "kb" THEN {"S", "K"}
    ELSE {"S", "M"}

\* worker w writes the keys ks: every other worker watching one of them
\* will get a WatchError at EXEC
Touch(w, ks) ==
    [v \in Workers |->
        IF v # w /\ Watched(v) \cap ks # {} THEN TRUE ELSE dirty[v]]

Tick ==
    /\ now + TickMs <= MaxNow
    /\ now' = now + TickMs
    /\ UNCHANGED << session, kbState, msState, dirty, req, nreq, hwm >>
    /\ UNCHANGED << modelVars, evalVars >>

(***************************************************************************)
(* Stream handlers                                                          *)
(***************************************************************************)
\* POST /stream/keyboard arrives: batch id from ids, events from menu, the
\* HST scorer's verdict for its windows from scores
StartKeyboard(w, max, ids, menu, scores) ==
    /\ Free(w)
    /\ nreq < max
    /\ \E b \in ids, es \in menu, sc \in scores :
          req' = [req EXCEPT ![w] =
                    [Idle EXCEPT !.pc = "s_get", !.kind = "kb",
                                 !.batch_id = b,
                                 !.events = es, !.score = sc, !.ts = now]]
    /\ nreq' = nreq + 1
    /\ UNCHANGED << now, session, kbState, msState, dirty, hwm >>
    /\ UNCHANGED << modelVars, evalVars >>

\* POST /stream/mouse arrives
StartMouse(w, max, ids, menu, scores) ==
    /\ Free(w)
    /\ nreq < max
    /\ \E b \in ids, m \in menu, sc \in scores :
          req' = [req EXCEPT ![w] =
                    [Idle EXCEPT !.pc = "s_get", !.kind = "ms",
                                 !.batch_id = b,
                                 !.n = m.n, !.strokes = m.strokes,
                                 !.score = sc, !.ts = now]]
    /\ nreq' = nreq + 1
    /\ UNCHANGED << now, session, kbState, msState, dirty, hwm >>
    /\ UNCHANGED << modelVars, evalVars >>

\* get_or_create_session, the read
StreamGetSession(w) ==
    /\ req[w].pc = "s_get"
    /\ req' = [req EXCEPT ![w].sess = session,
                          ![w].pc = IF session.exists THEN "s_state"
                                    ELSE "s_create"]
    /\ UNCHANGED << now, session, kbState, msState, dirty, nreq, hwm >>
    /\ UNCHANGED << modelVars, evalVars >>

\* get_or_create_session, the _save_session of a fresh record
StreamCreateSession(w) ==
    /\ req[w].pc = "s_create"
    /\ session' = NewSession(now)
    /\ dirty' = Touch(w, {"S"})
    /\ req' = [req EXCEPT ![w].sess = NewSession(now), ![w].pc = "s_state",
                          ![w].created = TRUE]
    /\ UNCHANGED << now, kbState, msState, nreq, hwm >>
    /\ UNCHANGED << modelVars, evalVars >>

\* process_keyboard_stream from get_keyboard_state up to the commit;
\* stream_keyboard turns ReplayAttackError into HTTP 400
KbProcess(w) ==
    /\ req[w].pc = "s_state"
    /\ req[w].kind = "kb"
    /\ LET r == req[w]
           out == KbCompute(r.sess, kbState, r, now)
       IN  req' = [req EXCEPT ![w] =
                IF IsReplay(r.batch_id, r.sess.last_keyboard_batch_id)
                THEN Return(r, 400)
                ELSE [r EXCEPT !.pc = "s_watch", !.sess = out.sess,
                               !.kb = out.kb]]
    /\ UNCHANGED << now, session, kbState, msState, dirty, nreq, hwm >>
    /\ UNCHANGED << modelVars, evalVars >>

\* process_mouse_stream from get_mouse_state up to the commit;
\* stream_mouse turns ReplayAttackError into HTTP 400
MsProcess(w) ==
    /\ req[w].pc = "s_state"
    /\ req[w].kind = "ms"
    /\ LET r == req[w]
           out == MsCompute(r.sess, msState, r)
       IN  req' = [req EXCEPT ![w] =
                IF IsReplay(r.batch_id, r.sess.last_mouse_batch_id)
                THEN Return(r, 400)
                ELSE [r EXCEPT !.pc = "s_watch", !.sess = out.sess,
                               !.ms = out.ms]]
    /\ UNCHANGED << now, session, kbState, msState, dirty, nreq, hwm >>
    /\ UNCHANGED << modelVars, evalVars >>

\* update_*_stream_atomic: WATCH, GET and the session transformer
StreamWatch(w) ==
    /\ req[w].pc = "s_watch"
    /\ LET r == req[w]
           cur == LoadOrDefault(session, now)
       IN  req' = [req EXCEPT ![w] =
                [r EXCEPT !.pc = "s_exec",
                          !.csess = IF r.kind = "kb"
                                    THEN KbUpdateSession(cur, r, now)
                                    ELSE MsUpdateSession(cur, r, now)]]
    /\ dirty' = [dirty EXCEPT ![w] = FALSE]
    /\ UNCHANGED << now, session, kbState, msState, nreq, hwm >>
    /\ UNCHANGED << modelVars, evalVars >>

ExecOkMut(d) == TRUE

\* EXEC succeeds iff no watched key was written since WATCH
ExecOk(d) == ~d

\* the for-loop of update_*_atomic after a WatchError; the stream handlers
\* ignore the False returned after the last attempt and answer 204
RetryOrGiveUp(r) ==
    IF r.attempt + 1 < SESSION_MAX_RETRIES
    THEN [r EXCEPT !.attempt = @ + 1, !.pc = "s_watch"]
    ELSE Return([r EXCEPT !.exhausted = TRUE], 204)

\* update_keyboard_stream_atomic: caps, MULTI / SETEX / SETEX / EXEC
KbExec(w) ==
    /\ req[w].pc = "s_exec"
    /\ req[w].kind = "kb"
    /\ LET r == req[w]
       IN  IF ExecOk(dirty[w])
           THEN /\ session' = r.csess
                /\ kbState' = CapKeyboard(r.kb)
                /\ dirty' = Touch(w, {"S", "K"})
                /\ hwm' = [hwm EXCEPT !.K = Max2(@, r.batch_id)]
                /\ req' = [req EXCEPT ![w] =
                              Return([r EXCEPT !.committed = TRUE], 204)]
           ELSE /\ req' = [req EXCEPT ![w] = RetryOrGiveUp(r)]
                /\ UNCHANGED << session, kbState, dirty, hwm >>
    /\ UNCHANGED << now, msState, nreq >>
    /\ UNCHANGED << modelVars, evalVars >>

\* update_mouse_stream_atomic: caps, MULTI / SETEX / SETEX / EXEC
MsExec(w) ==
    /\ req[w].pc = "s_exec"
    /\ req[w].kind = "ms"
    /\ LET r == req[w]
       IN  IF ExecOk(dirty[w])
           THEN /\ session' = r.csess
                /\ msState' = CapMouse(r.ms)
                /\ dirty' = Touch(w, {"S", "M"})
                /\ hwm' = [hwm EXCEPT !.M = Max2(@, r.batch_id)]
                /\ req' = [req EXCEPT ![w] =
                              Return([r EXCEPT !.committed = TRUE], 204)]
           ELSE /\ req' = [req EXCEPT ![w] = RetryOrGiveUp(r)]
                /\ UNCHANGED << session, msState, dirty, hwm >>
    /\ UNCHANGED << now, kbState, nreq >>
    /\ UNCHANGED << modelVars, evalVars >>

(***************************************************************************)
(* Evaluate handler                                                         *)
(***************************************************************************)
\* all workers are idle: the next request finds no other in progress
Quiet == \A v \in Workers : req[v].pc \in {"idle", "done"}

\* the evaluate handler returns resp with HTTP status st
EvalReturn(r, st, resp, cached) ==
    [Return(r, st) EXCEPT !.eval_id = r.eval_id, !.processed = r.processed,
                          !.decision = resp.decision, !.risk = resp.risk,
                          !.mode = resp.mode, !.cached = cached]

\* POST /evaluate arrives: eval_id from ids ("" for none), context metrics
\* from navs, the identity model's score of the windows from scores
StartEvaluate(w, max, ids, navs, scores) ==
    /\ Free(w)
    /\ nreq < max
    /\ \E e \in ids, nv \in navs, sc \in scores :
          req' = [req EXCEPT ![w] =
                    [Idle EXCEPT !.pc = IF e = "" THEN "e_get" ELSE "e_dedup",
                                 !.kind = "ev", !.eval_id = e,
                                 !.nav = nv, !.idscore = sc]]
    /\ nreq' = nreq + 1
    /\ UNCHANGED << now, session, kbState, msState, dirty, hwm >>
    /\ UNCHANGED << modelVars, evalVars >>

\* is_eval_processed: the dedup key exists until its TTL runs out
EvalDedup(w) ==
    /\ req[w].pc = "e_dedup"
    /\ LET processed == now < marks[req[w].eval_id]
       IN  req' = [req EXCEPT ![w].processed = processed,
                              ![w].pc = IF processed THEN "e_cached"
                                        ELSE "e_get"]
    /\ UNCHANGED << now, session, kbState, msState, dirty, nreq, hwm >>
    /\ UNCHANGED << modelVars, evalVars >>

\* get_cached_eval_response: the last response stored in the session record
EvalCached(w) ==
    /\ req[w].pc = "e_cached"
    /\ LET r == req[w]
       IN  req' = [req EXCEPT ![w] =
                IF session.exists /\ session.last_decision # "NONE"
                THEN EvalReturn(r, 200,
                                [decision |-> session.last_decision,
                                 risk |-> session.last_risk,
                                 mode |-> session.mode], TRUE)
                ELSE [r EXCEPT !.pc = "e_get"]]
    /\ UNCHANGED << now, session, kbState, msState, dirty, nreq, hwm >>
    /\ UNCHANGED << modelVars, evalVars >>

NoSessionResponseMut ==
    [decision |-> "ALLOW", risk |-> 0, mode |-> "NORMAL"]
\* the early answer of evaluate when get_session returns None
NoSessionResponse ==
    [decision |-> "CHALLENGE", risk |-> 500, mode |-> "NORMAL"]

\* get_session; without a session the answer is CHALLENGE 0.5
EvalGetSession(w) ==
    /\ req[w].pc = "e_get"
    /\ LET r == req[w]
       IN  req' = [req EXCEPT ![w] =
                IF session.exists
                THEN [r EXCEPT !.pc = "e_compute", !.sess = session]
                ELSE EvalReturn(r, 200, NoSessionResponse, FALSE)]
    /\ UNCHANGED << now, session, kbState, msState, dirty, nreq, hwm >>
    /\ UNCHANGED << modelVars, evalVars >>

\* learn_with_retry(user, mt, learn_fn, create_fn, inc) is entered
Learning(mt, inc) ==
    [IdleLearner EXCEPT !.pc = "l_acquire", !.mt = mt, !.inc = inc]

\* _finalize_evaluate after the HST learning: the identity learning, or
\* else save_trusted_context and the audit fields.  r: the request with the
\* finalized session r.sess; k: the handler's keyboard_state.  Result: the
\* request, its learner and the trusted-context flag afterwards.
EvalTail(r, k, after_identity) ==
    IF ~after_identity /\ r.decision = "ALLOW"
       /\ ShouldLearnIdentity(r.sess, r.navigator_risk, r.fnow)
       /\ k.completed_windows # << >>
    THEN [req |-> [r EXCEPT !.pc = "e_learn", !.plan = "identity"],
          lrn |-> Learning("keyboard_identity",
                           Len(LastN(k.completed_windows,
                                     IDENTITY_MAX_WINDOWS))),
          trusted |-> trusted]
    ELSE [req |-> [r EXCEPT !.pc = "e_watch",
                            !.sess = FinishSession(r.sess, r.decision, r.risk,
                                                   r.eval_id, r.fnow)],
          lrn |-> IdleLearner,
          trusted |-> (trusted \/ (r.decision = "ALLOW"
                                      /\ r.sess.mode = "NORMAL"))]

\* the request once evaluate has decided (d) and _finalize_evaluate has
\* updated strikes, mode and trust (f); k: the handler's keyboard_state
EvalFinalized(r, d, f, k, t) ==
    [r EXCEPT !.sess = f.sess, !.decision = d.decision,
              !.risk = d.risk, !.mode = f.sess.mode,
              !.navigator_risk = d.navigator_risk,
              !.plan = f.plan, !.fnow = t, !.kb = k]

EvalDecided(r, d, k, hst, t) ==
    EvalFinalized(r, d, EvalFinalize(d, k, hst, t), k, t)

\* the outcome of EvalTail is stored
EvalStore(w, tail) ==
    /\ req' = [req EXCEPT ![w] = tail.req]
    /\ lrn' = [lrn EXCEPT ![w] = tail.lrn]
    /\ trusted' = tail.trusted

\* the HST learning starts, or else the rest of _finalize_evaluate runs
EvalBranch(w, r1) ==
    IF r1.plan # "none"
    THEN /\ req' = [req EXCEPT ![w] = [r1 EXCEPT !.pc = "e_learn"]]
         /\ lrn' = [lrn EXCEPT ![w] =
                      Learning("keyboard_hst", Len(r1.kb.completed_windows))]
         /\ UNCHANGED trusted
    ELSE EvalStore(w, EvalTail(r1, r1.kb, FALSE))

\* evaluate from get_keyboard_state to the first learn_with_retry call or,
\* when nothing is learned, to the commit of the session
EvalCompute(w) ==
    /\ req[w].pc = "e_compute"
    /\ EvalBranch(w, EvalDecided(req[w],
                                 EvalDecide(req[w].sess, kbState, msState,
                                            trusted, models["keyboard_hst"],
                                            models["keyboard_identity"],
                                            req[w], now),
                                 kbState, models["keyboard_hst"], now))
    /\ UNCHANGED << now, session, kbState, msState, dirty, nreq, hwm >>
    /\ UNCHANGED << models, locks, nlearn, marks, first, rate, dbrow, extractor, unitVars >>

EvalAfterLearnMut(w) ==
    /\ req[w].pc = "e_learn"
    /\ lrn[w].pc = "done"
    /\ LET r == req[w]
           cleared == [r.kb EXCEPT !.completed_windows = << >>,
                                   !.last_score = 0]
       IN  IF r.plan = "hst_allow"
           THEN /\ kbState' = cleared
                /\ EvalStore(w, EvalTail([r EXCEPT !.kb = cleared],
                                         cleared, FALSE))
           ELSE /\ kbState' = kbState
                /\ EvalStore(w, EvalTail(r, r.kb, r.plan = "identity"))
    /\ UNCHANGED << now, session, msState, dirty, nreq, hwm >>
    /\ UNCHANGED << models, locks, nlearn, marks, first, rate, dbrow, extractor, unitVars >>

\* learn_with_retry has returned.  After the HST learning of the ALLOW
\* branch the handler calls self.repo._save_keyboard_state, which
\* SessionRepository does not define: AttributeError, HTTP 500.
EvalAfterLearn(w) ==
    /\ req[w].pc = "e_learn"
    /\ lrn[w].pc = "done"
    /\ LET r == req[w]
       IN  IF r.plan = "hst_allow"
           THEN /\ req' = [req EXCEPT ![w] = EvalReturn(r, 500, NoResp, FALSE)]
                /\ lrn' = [lrn EXCEPT ![w] = IdleLearner]
                /\ UNCHANGED trusted
           ELSE EvalStore(w, EvalTail(r, r.kb, r.plan = "identity"))
    /\ UNCHANGED << now, session, kbState, msState, dirty, nreq, hwm >>
    /\ UNCHANGED << models, locks, nlearn, marks, first, rate, dbrow, extractor, unitVars >>

\* update_session_atomic: WATCH and GET; the transformer ignores what was
\* read and returns the handler's record
EvalWatch(w) ==
    /\ req[w].pc = "e_watch"
    /\ req' = [req EXCEPT ![w].pc = "e_exec", ![w].csess = req[w].sess]
    /\ dirty' = [dirty EXCEPT ![w] = FALSE]
    /\ UNCHANGED << now, session, kbState, msState, nreq, hwm >>
    /\ UNCHANGED << modelVars, evalVars >>

\* update_session_atomic: MULTI / SETEX / EXEC and the retry loop; evaluate
\* ignores the None returned after the last attempt
EvalExec(w) ==
    /\ req[w].pc = "e_exec"
    /\ LET r == req[w]
       IN  IF ExecOk(dirty[w])
           THEN /\ session' = r.csess
                /\ dirty' = Touch(w, {"S"})
                /\ req' = [req EXCEPT ![w] =
                              [r EXCEPT !.committed = TRUE, !.pc = "e_mark"]]
           ELSE /\ req' = [req EXCEPT ![w] =
                              IF r.attempt + 1 < SESSION_MAX_RETRIES
                              THEN [r EXCEPT !.attempt = @ + 1,
                                             !.pc = "e_watch"]
                              ELSE [r EXCEPT !.exhausted = TRUE,
                                             !.pc = "e_mark"]]
                /\ UNCHANGED << session, dirty >>
    /\ UNCHANGED << now, kbState, msState, nreq, hwm >>
    /\ UNCHANGED << modelVars, evalVars >>

\* mark_eval_processed (60 s TTL) and the response
EvalMark(w) ==
    /\ req[w].pc = "e_mark"
    /\ LET r == req[w]
           resp == [decision |-> r.decision, risk |-> r.risk,
                    mode |-> r.sess.mode]
       IN  /\ req' = [req EXCEPT ![w] = EvalReturn(r, 200, resp, FALSE)]
           /\ IF r.eval_id # ""
              THEN /\ marks' = [marks EXCEPT ![r.eval_id] =
                                              now + EVAL_DEDUP_TTL_MS]
                   /\ first' = [first EXCEPT ![r.eval_id] =
                                   IF @ = NoResp THEN resp ELSE @]
              ELSE UNCHANGED << marks, first >>
    /\ UNCHANGED << now, session, kbState, msState, dirty, nreq, hwm >>
    /\ UNCHANGED << modelVars, trusted, rate, dbrow, extractor, unitVars >>

EvalSteps ==
    \/ \E w \in Workers : EvalDedup(w)
    \/ \E w \in Workers : EvalCached(w)
    \/ \E w \in Workers : EvalGetSession(w)
    \/ \E w \in Workers : EvalCompute(w)
    \/ \E w \in Workers : EvalWatch(w)
    \/ \E w \in Workers : EvalExec(w)
    \/ \E w \in Workers : EvalMark(w)

(***************************************************************************)
(* Specification of the two stream endpoints under concurrent requests      *)
(***************************************************************************)
StreamSteps ==
    \/ \E w \in Workers : StreamGetSession(w)
    \/ \E w \in Workers : StreamCreateSession(w)
    \/ \E w \in Workers : KbProcess(w)
    \/ \E w \in Workers : MsProcess(w)
    \/ \E w \in Workers : StreamWatch(w)
    \/ \E w \in Workers : KbExec(w)
    \/ \E w \in Workers : MsExec(w)

NextStream ==
    \/ \E w \in Workers :
          StartKeyboard(w, MaxStreamReqs, 1..MaxBatch, KbSmall(now), {0})
    \/ \E w \in Workers :
          StartMouse(w, MaxStreamReqs, 1..MaxBatch, MsSmall, {0})
    \/ StreamSteps

SpecStream == Init /\ [][NextStream]_vars

(***************************************************************************)
(* Specification of the keyboard stream commit under contention: enough     *)
(* requests for one commit to lose all its attempts                         *)
(***************************************************************************)
NextCas ==
    \/ \E w \in Workers :
          StartKeyboard(w, MaxCasReqs, 1..MaxCasBatch, KbSmall(now), {0})
    \/ \E w \in Workers : StreamGetSession(w)
    \/ \E w \in Workers : StreamCreateSession(w)
    \/ \E w \in Workers : KbProcess(w)
    \/ \E w \in Workers : StreamWatch(w)
    \/ \E w \in Workers : KbExec(w)

SpecCas == Init /\ [][NextCas]_vars

(***************************************************************************)
(* Properties of the stream endpoints                                       *)
(***************************************************************************)
\* the batch id of r's modality in the session record r read
LastSeen(r) ==
    IF r.kind = "kb" THEN r.sess.last_keyboard_batch_id
    ELSE r.sess.last_mouse_batch_id

\* worker w takes the step that leaves program point pc
Leaves(w, pc) == req[w].pc = pc /\ req'[w].pc # pc

\* C1: for either modality, a stream request whose batch_id is less than or
\* equal to the last accepted batch id of the session record it read is
\* answered 400 (replay), it has written nothing, and its rejection leaves
\* the stored session and both stored modality states unchanged.
C1_ReplayRejected ==
    [][\A w \in Workers :
         (Leaves(w, "s_state") /\ req[w].batch_id <= LastSeen(req[w]))
            => /\ req'[w].pc = "done"
               /\ req'[w].status = 400
               /\ ~req[w].created
               /\ ~req'[w].committed
               /\ session' = session
               /\ kbState' = kbState
               /\ msState' = msState]_vars

C1_Witness ==
    \E w \in Workers : req[w].pc = "done" /\ req[w].status = 400

\* C2: per modality, commits are serialized: a request's write is committed
\* only if its batch_id is greater than every batch_id committed before it
\* (so no batch_id is committed twice).
C2_SerializedCommits ==
    [][\A w \in Workers :
         (Leaves(w, "s_exec") /\ req'[w].committed)
            => req[w].batch_id > (IF req[w].kind = "kb" THEN hwm.K ELSE hwm.M)
      ]_vars

\* the stored state of r's modality
StoredState(r) == IF r.kind = "kb" THEN kbState ELSE msState
CappedState(r) == IF r.kind = "kb" THEN CapKeyboard(r.kb) ELSE CapMouse(r.ms)

\* C8: the EXEC of a stream commit writes the session key and the modality
\* key together or writes neither; it writes neither when a watched key was
\* written by another request after the WATCH; a request makes at most 5
\* attempts, and after the 5th failure nothing of it is written and the
\* client is still answered 204.
C8_AtomicCommit ==
    /\ [][\A w \in Workers :
            Leaves(w, "s_exec")
               => /\ \/ /\ req'[w].committed
                        /\ session' = req[w].csess
                        /\ StoredState(req[w])' = CappedState(req[w])
                     \/ /\ ~req'[w].committed
                        /\ session' = session
                        /\ kbState' = kbState
                        /\ msState' = msState
                  /\ dirty[w] => ~req'[w].committed
                  /\ req'[w].exhausted
                        => /\ req[w].attempt = SESSION_MAX_RETRIES - 1
                           /\ ~req'[w].committed
                           /\ req'[w].pc = "done"
                           /\ req'[w].status = 204]_vars
    /\ [](\A w \in Workers : req[w].attempt < SESSION_MAX_RETRIES)

C8_Witness ==
    \E w \in Workers :
        req[w].pc = "done" /\ req[w].exhausted /\ req[w].status = 204

(***************************************************************************)
(* Specification of the stream endpoints fed with batches large enough to   *)
(* overflow every buffer; the client numbers its batches consecutively      *)
(***************************************************************************)
NextBuf ==
    \/ \E w \in Workers :
          StartKeyboard(w, MaxBufReqs, {nreq + 1}, KbLarge(now), {0})
    \/ \E w \in Workers :
          StartMouse(w, MaxBufReqs, {nreq + 1}, MsLarge, {0})
    \/ StreamSteps

SpecBuf == Init /\ [][NextBuf]_vars

\* new is old without its oldest entries, as many as exceed cap
IsTail(new, old, cap) ==
    /\ Len(new) = Min2(Len(old), cap)
    /\ \A i \in 1..Len(new) : new[i] = old[Len(old) - Len(new) + i]

\* C7: in every stored state pending_events (keyboard and mouse) holds at
\* most 50 entries and completed_windows and completed_strokes hold at most
\* 20 entries each; a commit stores the newest entries of each list the
\* handler computed, the oldest being the ones dropped.
C7_BufferCaps ==
    /\ [](/\ Len(kbState.pending_events) <= 50
          /\ Len(msState.pending_events) <= 50
          /\ Len(kbState.completed_windows) <= 20
          /\ Len(msState.completed_strokes) <= 20)
    /\ [][\A w \in Workers :
            (Leaves(w, "s_exec") /\ req'[w].committed)
               => IF req[w].kind = "kb"
                  THEN /\ IsTail(kbState'.pending_events,
                                 req[w].kb.pending_events, 50)
                       /\ IsTail(kbState'.completed_windows,
                                 req[w].kb.completed_windows, 20)
                       /\ msState' = msState
                  ELSE /\ IsTail(msState'.pending_events,
                                 req[w].ms.pending_events, 50)
                       /\ IsTail(msState'.completed_strokes,
                                 req[w].ms.completed_strokes, 20)
                       /\ kbState' = kbState]_vars

\* all four buffers are full, which only truncation produces: the batches
\* carry 60 events or 21 windows, or 21 strokes followed by 60 events
C7_Witness ==
    /\ Len(kbState.pending_events) = 50
    /\ Len(msState.pending_events) = 50
    /\ Len(kbState.completed_windows) = 20
    /\ Len(msState.completed_strokes) = 20

(***************************************************************************)
(* Model store: save_model with optimistic locking and learn_with_retry     *)
(***************************************************************************)
\* a thread calls learn_with_retry(user, mt, learn_fn, create_fn, inc)
LearnCall(l) ==
    /\ lrn[l].pc = "idle"
    /\ nlearn < MaxLearns
    /\ \E mt \in ModelTypes :
          lrn' = [lrn EXCEPT ![l] =
                    [IdleLearner EXCEPT !.pc = "l_acquire", !.mt = mt,
                                        !.inc = 1]]
    /\ nlearn' = nlearn + 1
    /\ UNCHANGED << models, locks >>
    /\ UNCHANGED storeVars

AcquiredMut(holder) == TRUE

\* lock.acquire(blocking=False)
Acquired(holder) == holder = 0

\* the non-blocking acquire; a caller that finds the lock held returns False
LearnAcquire(l) ==
    /\ lrn[l].pc = "l_acquire"
    /\ LET r == lrn[l]
       IN  IF Acquired(locks[Proc(l)][r.mt])
           THEN /\ locks' = [locks EXCEPT ![Proc(l)][r.mt] = l]
                /\ lrn' = [lrn EXCEPT ![l].pc = "l_load"]
           ELSE /\ lrn' = [lrn EXCEPT ![l].pc = "done",
                                      ![l].result = "false"]
                /\ UNCHANGED locks
    /\ UNCHANGED << models, nlearn >>
    /\ UNCHANGED storeVars

\* stored = self.load_model(user_id, model_type)
LearnLoad(l) ==
    /\ lrn[l].pc = "l_load"
    /\ lrn' = [lrn EXCEPT ![l].stored = models[lrn[l].mt],
                          ![l].loads = @ + 1,
                          ![l].pc = "l_save"]
    /\ UNCHANGED << models, locks, nlearn >>
    /\ UNCHANGED storeVars

VersionMatchesMut(row, expected_version) == row.exists

\* update(...).eq("model_version", expected_version) matches the row
VersionMatches(row, expected_version) ==
    row.exists /\ row.model_version = expected_version

\* save_model(user, model, count, mt, expected_version): the row after the
\* call and the value returned; expected_version = NONE is Python's None
SaveModel(row, count, expected_version) ==
    IF expected_version # NONE
    THEN IF VersionMatches(row, expected_version)
         THEN [row |-> [exists |-> TRUE,
                        model_version |-> expected_version + 1,
                        feature_window_count |-> count],
               ok |-> TRUE]
         ELSE [row |-> row, ok |-> FALSE]
    ELSE [row |-> [exists |-> TRUE, model_version |-> 1,
                   feature_window_count |-> count],
          ok |-> TRUE]

\* learn_fn and save_model of one attempt, the retry loop around them and
\* the release of the lock in the finally clause
LearnSave(l) ==
    /\ lrn[l].pc = "l_save"
    /\ LET r == lrn[l]
           out == IF r.stored.exists
                  THEN SaveModel(models[r.mt],
                                 r.stored.feature_window_count + r.inc,
                                 r.stored.model_version)
                  ELSE SaveModel(models[r.mt], r.inc, NONE)
           last == r.attempt + 1 >= MODEL_MAX_RETRIES
       IN  /\ models' = [models EXCEPT ![r.mt] = out.row]
           /\ lrn' = [lrn EXCEPT ![l] =
                 IF out.ok
                 THEN [r EXCEPT !.pc = "done", !.saved = "true",
                                !.result = "true"]
                 ELSE IF last
                 THEN [r EXCEPT !.pc = "done", !.saved = "false",
                                !.attempt = @ + 1, !.result = "false"]
                 ELSE [r EXCEPT !.pc = "l_load", !.saved = "false",
                                !.attempt = @ + 1]]
           /\ locks' = IF out.ok \/ last
                       THEN [locks EXCEPT ![Proc(l)][r.mt] = 0]
                       ELSE locks
    /\ UNCHANGED nlearn
    /\ UNCHANGED storeVars

\* the caller takes the result; the thread is free for another call
LearnReturn(l) ==
    /\ lrn[l].pc = "done"
    /\ lrn' = [lrn EXCEPT ![l] = IdleLearner]
    /\ UNCHANGED << models, locks, nlearn >>
    /\ UNCHANGED storeVars

NextModel ==
    \/ \E l \in Learners : LearnCall(l)
    \/ \E l \in Learners : LearnAcquire(l)
    \/ \E l \in Learners : LearnLoad(l)
    \/ \E l \in Learners : LearnSave(l)
    \/ \E l \in Learners : LearnReturn(l)

SpecModel == Init /\ [][NextModel]_vars

\* learner l takes the step that leaves program point pc
LearnerLeaves(l, pc) == lrn[l].pc = pc /\ lrn'[l].pc # pc

\* C9: a save with expected version v changes the stored row only if the
\* stored model_version equals v when the write happens, and then the row
\* gets model_version v + 1 and the save succeeds; if the stored version
\* differs the row is unchanged and the save reports failure.
C9_SaveExpectedVersion ==
    [][\A l \in Learners :
         (LearnerLeaves(l, "l_save") /\ lrn[l].stored.exists)
            => LET mt == lrn[l].mt
                   v == lrn[l].stored.model_version
               IN  IF models[mt].exists /\ models[mt].model_version = v
                   THEN /\ models'[mt].model_version = v + 1
                        /\ models'[mt].feature_window_count =
                              lrn[l].stored.feature_window_count + lrn[l].inc
                        /\ lrn'[l].saved = "true"
                   ELSE /\ models' = models
                        /\ lrn'[l].saved = "false"]_vars

\* a save has failed on a version conflict and saves have succeeded
C9_Witness ==
    \E l \in Learners :
        /\ lrn[l].saved = "false"
        /\ lrn[l].stored.exists
        /\ models[lrn[l].mt].model_version > lrn[l].stored.model_version
        /\ models[lrn[l].mt].model_version >= 2

\* the learners of process p inside a load-learn-save cycle for mt
InCycle(p, mt) ==
    {l \in Learners : Proc(l) = p /\ lrn[l].mt = mt
                      /\ lrn[l].pc \in {"l_load", "l_save"}}

\* C10: a learn_with_retry call that finds the lock of its (user, model
\* type) held by another learner of its process returns False at once,
\* having loaded and saved nothing and leaving the rows and the locks as
\* they are; so within a process at most one load-learn-save cycle per
\* model type is in progress at any time.
C10_NonBlockingLock ==
    /\ [][\A l \in Learners :
            (LearnerLeaves(l, "l_acquire")
               /\ locks[Proc(l)][lrn[l].mt] \notin {0, l})
               => /\ lrn'[l].pc = "done"
                  /\ lrn'[l].result = "false"
                  /\ lrn'[l].loads = 0
                  /\ lrn'[l].saved = "none"
                  /\ models' = models
                  /\ locks' = locks]_vars
    /\ [](\A p \in Procs, mt \in ModelTypes : Cardinality(InCycle(p, mt)) <= 1)

\* a call was skipped while another learner of the process is in its cycle
C10_Witness ==
    \E l \in Learners :
        /\ lrn[l].pc = "done"
        /\ lrn[l].result = "false"
        /\ lrn[l].loads = 0
        /\ InCycle(Proc(l), lrn[l].mt) # {}

(***************************************************************************)
(* Specification of evaluate requests running concurrently with each other  *)
(* and with keyboard batches too short to complete a window                 *)
(***************************************************************************)
NextEval ==
    \/ \E w \in Workers :
          StartKeyboard(w, MaxEvalReqs, {nreq + 1}, KbSmall(now), {0})
    \/ \E w \in Workers :
          StartEvaluate(w, MaxEvalReqs, EvalIds, {CleanNav, ViolationNav}, {0})
    \/ \E w \in Workers : StreamGetSession(w)
    \/ \E w \in Workers : StreamCreateSession(w)
    \/ \E w \in Workers : KbProcess(w)
    \/ \E w \in Workers : StreamWatch(w)
    \/ \E w \in Workers : KbExec(w)
    \/ EvalSteps

SpecEval == Init /\ [][NextEval]_vars

\* worker w's evaluate request returns with HTTP 200
EvalReturns(w) ==
    /\ req[w].kind = "ev"
    /\ req[w].pc # "done"
    /\ req'[w].pc = "done"
    /\ req'[w].status = 200

\* C3: an evaluate request whose eval_id is marked processed when it
\* arrives (a request with this eval_id was answered less than 60 s ago)
\* returns the same decision, risk and mode as the request that marked it,
\* whatever stream and evaluate requests were processed in between.
C3_SameEvalIdSameResponse ==
    [][\A w \in Workers :
         (EvalReturns(w) /\ req[w].processed)
            => [decision |-> req'[w].decision, risk |-> req'[w].risk,
                mode |-> req'[w].mode] = first[req[w].eval_id]]_vars

\* C4: an evaluate request whose eval_id is marked processed when it arrives
\* returns the cached response, and none of its steps changes the stored
\* session (strikes, trust_score, consecutive_allows, mode), the per-user
\* models or the trusted context.
C4_SecondCallNoMutation ==
    [][\A w \in Workers :
         (/\ req[w].kind = "ev"
          /\ req[w].processed
          /\ req[w].pc # "done"
          /\ (req'[w] # req[w] \/ lrn'[w] # lrn[w]))
            => /\ session' = session
               /\ models' = models
               /\ trusted' = trusted
               /\ req'[w].pc = "done" => req'[w].cached]_vars

(***************************************************************************)
(* Specification of the decision pipeline: one request at a time, against   *)
(* a model table that may already hold a mature identity model of the user, *)
(* with keyboard batches of three windows, mouse strokes the physics scorer *)
(* rejects, and time passing between requests                               *)
(***************************************************************************)
\* a row of a model that has learned 150 windows
MatureModel ==
    [exists |-> TRUE, model_version |-> 1, feature_window_count |-> 150]

InitSeeded ==
    /\ now = StartTime
    /\ session = NoSession
    /\ kbState = NewKeyboardState
    /\ msState = NewMouseState
    /\ dirty = [w \in Workers |-> FALSE]
    /\ req = [w \in Workers |-> Idle]
    /\ nreq = 0
    /\ hwm = [K |-> 0, M |-> 0]
    /\ \E row \in {NoModel, MatureModel} :
          models = [mt \in ModelTypes |->
                      IF mt = "keyboard_identity" THEN row ELSE NoModel]
    /\ locks = [p \in Procs |-> [mt \in ModelTypes |-> 0]]
    /\ lrn = [l \in Learners |-> IdleLearner]
    /\ nlearn = 0
    /\ marks = [e \in EvalIds |-> 0]
    /\ trusted = FALSE
    /\ first = [e \in EvalIds |-> NoResp]
    /\ rate = NoRate
    /\ dbrow = NoRow
    /\ extractor = FreshExtractor
    /\ profile = NoProfile
    /\ tracker = NewTracker
    /\ stroke = NoStroke
    /\ analysis = NoAnalysis

NextCascade ==
    \/ Quiet /\ Tick
    \/ \E w \in Workers :
          Quiet /\ StartKeyboard(w, MaxCascadeReqs, {nreq + 1},
                                 {Typing(60, now)}, {0})
    \/ \E w \in Workers :
          Quiet /\ StartMouse(w, MaxCascadeReqs, {nreq + 1},
                              {[n |-> 11, strokes |-> << 11 >>]}, {1000})
    \/ \E w \in Workers :
          Quiet /\ StartEvaluate(w, MaxCascadeReqs, {""},
                                 {CleanNav, TravelNav, ViolationNav}, {1000})
    \/ StreamSteps
    \/ \E w \in Workers : EvalGetSession(w)
    \/ \E w \in Workers : EvalCompute(w)
    \/ \E w \in Workers : EvalAfterLearn(w)
    \/ \E w \in Workers : EvalWatch(w)
    \/ \E w \in Workers : EvalExec(w)
    \/ \E w \in Workers : EvalMark(w)
    \/ \E l \in Learners : LearnAcquire(l)
    \/ \E l \in Learners : LearnLoad(l)
    \/ \E l \in Learners : LearnSave(l)

SpecCascade == InitSeeded /\ [][NextCascade]_vars

\* C6: when an evaluate of an existing session, not served from the cache,
\* computes its decision and the strikes after decay are at least 3 (6 half
\* strikes), or the mouse last_score is at least 1 - epsilon, or the policy
\* engine's decision is BLOCK, or the identity confidence is at least 0.6
\* with identity risk at least 0.95, then the decision is BLOCK with risk
\* 1; and the response carries that decision and risk.
C6_HardBlockCascade ==
    /\ [][\A w \in Workers :
            Leaves(w, "e_compute")
               => LET idn == ComputeIdentityRisk(kbState,
                                 models["keyboard_identity"], req[w].idscore)
                  IN  (\/ ApplyStrikeDecay(req[w].sess, now).strikes >= 6
                       \/ msState.last_score >= 999
                       \/ PolicyDecision(PolicyRisk(req[w].nav)) = "BLOCK"
                       \/ /\ idn.identity_confidence >= 600
                          /\ idn.identity_risk >= 950)
                      => /\ req'[w].decision = "BLOCK"
                         /\ req'[w].risk = 1000]_vars
    /\ [][\A w \in Workers :
            Leaves(w, "e_mark")
               => /\ req'[w].status = 200
                  /\ req'[w].decision = req[w].decision
                  /\ req'[w].risk = req[w].risk]_vars

\* a request with unremarkable context metrics, no mouse risk and no
\* identity model is blocked with risk 1 on its strikes alone
C6_Witness ==
    \E w \in Workers :
        /\ req[w].pc = "e_watch"
        /\ req[w].nav \in {CleanNav, TravelNav}
        /\ msState.last_score = 0
        /\ ~models["keyboard_identity"].exists
        /\ req[w].sess.strikes >= 6 + STRIKES_PER_BLOCK
        /\ req[w].decision = "BLOCK"
        /\ req[w].risk = 1000

(***************************************************************************)
(* Specification of the evaluate commit under contention: keyboard batches  *)
(* and, among the first requests, evaluate requests without eval_id run two *)
(* at a time; the batches are enough for one commit to lose all its         *)
(* attempts                                                                 *)
(***************************************************************************)
NextEvalCas ==
    \/ \E w \in Workers :
          StartKeyboard(w, MaxEvalCasReqs, {nreq + 1}, KbSmall(now), {0})
    \/ \E w \in Workers :
          StartEvaluate(w, MaxEvalCasPrefix, {""},
                        {CleanNav, FastTravelNav}, {0})
    \/ \E w \in Workers : StreamGetSession(w)
    \/ \E w \in Workers : StreamCreateSession(w)
    \/ \E w \in Workers : KbProcess(w)
    \/ \E w \in Workers : StreamWatch(w)
    \/ \E w \in Workers : KbExec(w)
    \/ \E w \in Workers : EvalGetSession(w)
    \/ \E w \in Workers : EvalCompute(w)
    \/ \E w \in Workers : EvalWatch(w)
    \/ \E w \in Workers : EvalExec(w)
    \/ \E w \in Workers : EvalMark(w)

SpecEvalCas == Init /\ [][NextEvalCas]_vars

\* worker w's evaluate ends its commit, applied or given up
CommitEnds(w) == Leaves(w, "e_exec") /\ req'[w].pc = "e_mark"

\* C5 as stated: when an evaluate whose decision is BLOCK has ended its
\* commit, the stored session trust_score is 0.
C5_TrustZeroAfterBlock ==
    [][\A w \in Workers :
         (CommitEnds(w) /\ req[w].decision = "BLOCK")
            => session'.trust_score = 0]_vars

\* C5, amended: an evaluate whose decision is BLOCK commits a record with
\* trust_score 0, so the stored trust_score is 0 right after its commit is
\* applied; when the commit is given up after 5 conflicts the stored record,
\* trust_score included, is what the conflicting requests wrote.
C5_TrustZeroWhenCommitted ==
    [][\A w \in Workers :
         (CommitEnds(w) /\ req[w].decision = "BLOCK")
            => /\ req[w].csess.trust_score = 0
               /\ req'[w].committed => session'.trust_score = 0
               /\ ~req'[w].committed
                     => /\ req'[w].exhausted
                        /\ req[w].attempt = SESSION_MAX_RETRIES - 1
                        /\ session' = session]_vars

\* a BLOCK decided by the fusion thresholds (risk below 1) has been
\* committed
C5_Witness ==
    \E w \in Workers :
        /\ req[w].pc = "e_mark"
        /\ req[w].decision = "BLOCK"
        /\ req[w].risk < ONE
        /\ req[w].committed
        /\ session = req[w].csess
        /\ session.trust_score = 0

(***************************************************************************)
(* Specification of the stream endpoints with a client that skips batch    *)
(* ids: the next id in sequence, or one more than 10 ahead of it            *)
(***************************************************************************)
MaxGapReqs == 3

NextGap ==
    \/ \E w \in Workers :
          StartKeyboard(w, MaxGapReqs, {nreq + 1, 12 * (nreq + 1)},
                        KbSmall(now), {0})
    \/ \E w \in Workers :
          StartMouse(w, MaxGapReqs, {nreq + 1, 12 * (nreq + 1)},
                     MsSmall, {0})
    \/ StreamSteps

SpecGap == Init /\ [][NextGap]_vars

\* the request's batch_id is more than 10 above the last accepted batch id
\* of its modality in the session record it read
IsGapBatch(r) == r.batch_id - LastSeen(r) > GAP_TOLERANCE

\* C11: when a stream batch accepted with a batch_id more than 10 above the
\* modality's last accepted batch_id is committed, the stored state of that
\* modality holds nothing but this batch's events, windows or strokes, and
\* the stored strikes are 0.5 (one half strike) higher than before the
\* write.
C11_GapResetsAndStrikes ==
    [][\A w \in Workers :
         (Leaves(w, "s_exec") /\ req'[w].committed /\ IsGapBatch(req[w]))
            => /\ session'.strikes = session.strikes + 1
               /\ IF req[w].kind = "kb"
                  THEN /\ kbState'.pending_events = req[w].events
                       /\ kbState'.completed_windows = << >>
                  ELSE /\ Len(msState'.pending_events) = req[w].n
                       /\ msState'.completed_strokes = << >>]_vars

(***************************************************************************)
(* Properties of the session mode                                           *)
(***************************************************************************)
\* C12: when an evaluate decides CHALLENGE or BLOCK for a session it read in
\* mode NORMAL, the session record it finalizes has mode CHALLENGE,
\* challenge_entered_ts equal to the current time and consecutive_allows 0.
C12_NonAllowEntersChallenge ==
    [][\A w \in Workers :
         (/\ Leaves(w, "e_compute")
          /\ req[w].sess.mode = "NORMAL"
          /\ req'[w].decision \in {"CHALLENGE", "BLOCK"})
            => /\ req'[w].sess.mode = "CHALLENGE"
               /\ req'[w].sess.challenge_entered_ts = now
               /\ req'[w].sess.consecutive_allows = 0]_vars

\* the hysteresis of an evaluate that read session s at time t: 3 allows
\* and 10 s when the session is trusted, 5 allows and 20 s otherwise
HysteresisMet(s, decision, t) ==
    LET is_trusted ==
            ApplyTrustInactivityDecay(s, t).trust_score >= TRUSTED_THRESHOLD
        allows == IF decision = "ALLOW" THEN s.consecutive_allows + 1 ELSE 0
    IN  /\ allows >= (IF is_trusted THEN 3 ELSE 5)
        /\ t - s.challenge_entered_ts >= (IF is_trusted THEN 10000 ELSE 20000)

\* C13: an evaluate that read the session in mode CHALLENGE finalizes it in
\* mode NORMAL if and only if consecutive_allows (this evaluate's decision
\* counted) has reached H_allows and the time since challenge_entered_ts
\* has reached H_time; and the stored mode changes from CHALLENGE to NORMAL
\* only when an evaluate commits.
C13_ChallengeExit ==
    /\ [][\A w \in Workers :
            (Leaves(w, "e_compute") /\ req[w].sess.mode = "CHALLENGE")
               => (req'[w].sess.mode = "NORMAL"
                     <=> HysteresisMet(req[w].sess, req'[w].decision, now))
       ]_vars
    /\ [][(session.exists /\ session.mode = "CHALLENGE"
             /\ session'.mode = "NORMAL")
            => \E w \in Workers :
                  /\ req[w].kind = "ev"
                  /\ Leaves(w, "e_exec")
                  /\ req'[w].committed]_vars

(***************************************************************************)
(* Specification of the decision function: one evaluate request against    *)
(* stored records drawn from the sessions, keyboard and mouse states and    *)
(* model rows that earlier requests can have left                           *)
(***************************************************************************)
MaxFusionReqs == 1

\* three completed windows of one batch, each scored sc
ThreeWindows(sc) ==
    [i \in 1..3 |-> [b |-> 1, n |-> WINDOW_SIZE + WINDOW_STRIDE * (i - 1),
                     score |-> sc, event_ts |-> StartTime]]

\* a model row that has learned 90 of the 150 windows required
HalfModel ==
    [exists |-> TRUE, model_version |-> 1, feature_window_count |-> 90]

\* keyboard states: nothing typed yet, or three windows with a last score
FusionKeyboards ==
    {NewKeyboardState}
      \cup {[NewKeyboardState EXCEPT !.completed_windows = ThreeWindows(sc),
                                     !.last_score = sc,
                                     !.last_event_ts = StartTime] :
               sc \in {0, 600, ONE}}

\* sessions in either mode, untrusted or trusted, before or after the first
\* ALLOW; the window counters agree with the keyboard state k
FusionSessions(k) ==
    {[NewSession(StartTime) EXCEPT
        !.mode = m,
        !.challenge_entered_ts = IF m = "CHALLENGE" THEN StartTime ELSE 0,
        !.trust_score = ts,
        !.last_verified_ts = IF ts > 0 THEN StartTime ELSE 0,
        !.identity_ready = ir,
        !.keyboard_window_count =
            IF k.completed_windows = << >> THEN 0 ELSE KEYBOARD_COUNT_MATURITY,
        !.keyboard_first_window_ts =
            IF k.completed_windows = << >> THEN 0 ELSE StartTime] :
       m \in {"NORMAL", "CHALLENGE"}, ts \in {0, 800}, ir \in BOOLEAN}

InitFusion ==
    /\ now = StartTime
    /\ kbState \in FusionKeyboards
    /\ session \in FusionSessions(kbState)
    /\ msState \in {NewMouseState, [NewMouseState EXCEPT !.last_score = 500]}
    /\ dirty = [w \in Workers |-> FALSE]
    /\ req = [w \in Workers |-> Idle]
    /\ nreq = 0
    /\ hwm = [K |-> 0, M |-> 0]
    /\ \E idm \in {NoModel, HalfModel, MatureModel},
          hst \in {NoModel, MatureModel} :
          models = [mt \in ModelTypes |->
                      IF mt = "keyboard_identity" THEN idm ELSE hst]
    /\ locks = [p \in Procs |-> [mt \in ModelTypes |-> 0]]
    /\ lrn = [l \in Learners |-> IdleLearner]
    /\ nlearn = 0
    /\ marks = [e \in EvalIds |-> 0]
    /\ trusted \in BOOLEAN
    /\ first = [e \in EvalIds |-> NoResp]
    /\ rate = NoRate
    /\ dbrow = NoRow
    /\ extractor = FreshExtractor
    /\ profile = NoProfile
    /\ tracker = NewTracker
    /\ stroke = NoStroke
    /\ analysis = NoAnalysis

NextFusion ==
    \/ Quiet /\ Tick
    \/ \E w \in Workers :
          Quiet /\ StartEvaluate(w, MaxFusionReqs, {""},
                                 {CleanNav, NewDeviceNav, TravelNav},
                                 {0, ONE})
    \/ \E w \in Workers : EvalGetSession(w)
    \/ \E w \in Workers : EvalCompute(w)
    \/ \E w \in Workers : EvalAfterLearn(w)
    \/ \E w \in Workers : EvalWatch(w)
    \/ \E w \in Workers : EvalExec(w)
    \/ \E w \in Workers : EvalMark(w)
    \/ \E l \in Learners : LearnAcquire(l)
    \/ \E l \in Learners : LearnLoad(l)
    \/ \E l \in Learners : LearnSave(l)

SpecFusion == InitFusion /\ [][NextFusion]_vars

\* the largest of the four weighted risks wr
MaxWeighted(wr) ==
    CHOOSE x \in {wr.keyboard, wr.mouse, wr.navigator, wr.identity} :
        \A y \in {wr.keyboard, wr.mouse, wr.navigator, wr.identity} : y <= x

\* the row's identity confidence: min(1, feature_window_count / 150)
RowConfidence(row) ==
    Min2(ONE, (row.feature_window_count * ONE)
                 \div IDENTITY_MODEL_SAMPLES_REQUIRED)

\* C14: every evaluate answered 200 carries a decision among ALLOW,
\* CHALLENGE and BLOCK and a risk between 0 and 1; when neither the
\* hard-block cascade nor the immature-identity guard decides, the risk is
\* the largest of the four weighted risks clamped to [0, 1]; and with the
\* weights of any session mode, trust level and identity confidence the
\* fused risk of component risks that are each 0 or 1, all four 1 included,
\* is the largest weighted risk and lies between 0 and 1.
C14_ResponseRange ==
    /\ [][\A w \in Workers :
            EvalReturns(w)
               => /\ req'[w].decision \in {"ALLOW", "CHALLENGE", "BLOCK"}
                  /\ req'[w].risk \in 0..ONE]_vars
    /\ [][\A w \in Workers :
            Leaves(w, "e_compute")
               => LET s == ApplyTrustInactivityDecay(
                               ApplyStrikeDecay(req[w].sess, now), now)
                      nav_risk == PolicyRisk(req[w].nav)
                      idn == ComputeIdentityRisk(kbState,
                                 models["keyboard_identity"], req[w].idscore)
                      wr == WeightedRisks(
                                s.mode, s.trust_score >= TRUSTED_THRESHOLD,
                                ApplyKeyboardConfidence(kbState.last_score,
                                                        req[w].sess, now),
                                msState.last_score,
                                IF ~trusted /\ nav_risk = 500 THEN 0
                                ELSE nav_risk,
                                idn)
                      hard == \/ s.strikes >= 6
                              \/ msState.last_score >= 999
                              \/ nav_risk >= 850
                              \/ /\ idn.identity_confidence >= 600
                                 /\ idn.identity_risk >= 950
                      guard == /\ s.identity_ready
                               /\ idn.identity_confidence < 600
                               /\ idn.identity_risk >= 980
                  IN  (~hard /\ ~guard)
                         => req'[w].risk =
                               Max2(0, Min2(ONE, MaxWeighted(wr)))]_vars
    /\ [](nreq = 0 =>
            \A kb \in {0, ONE}, ms \in {0, ONE}, nv \in {0, ONE},
               ir \in {0, ONE} :
               LET wr == WeightedRisks(
                             session.mode,
                             session.trust_score >= TRUSTED_THRESHOLD,
                             kb, ms, nv,
                             [identity_risk |-> ir,
                              identity_confidence |->
                                  RowConfidence(models["keyboard_identity"])])
               IN  /\ FuseRisk(wr) \in 0..ONE
                   /\ FuseRisk(wr) = MaxWeighted(wr))

\* a request decided by the fusion thresholds alone is answered with a
\* risk strictly between 0 and 1
C14_Witness ==
    \E w \in Workers :
        /\ req[w].pc = "done"
        /\ req[w].kind = "ev"
        /\ req[w].status = 200
        /\ req[w].decision \in {"ALLOW", "CHALLENGE"}
        /\ req[w].risk \in 1..(ONE - 1)
        /\ msState.last_score = 0


(***************************************************************************)
(* Rate limiting: the per-second counter keys and the 429 rejection         *)
(***************************************************************************)
STREAM_RATE_LIMIT == 20
EVAL_RATE_LIMIT == 10
MaxRateReqs == 22
MaxRateEvals == 12
MaxRateNow == 20000
MaxStoreErrors == 1

\* int(time.time())
EpochSecond(t) == t \div 1000

\* the counter key of second sec as the store holds it: a key of an earlier
\* second is another key, the one of this second does not exist yet
RateKeyAt(k, sec) == IF k.sec = sec THEN k ELSE [NoKey EXCEPT !.sec = sec]

AllowsMut(count, limit) == count <= limit + 1
\* return count <= limit
Allows(count, limit) == count <= limit

\* _check_rate_limit: INCR the key of this second and compare; a store error
\* (ok = FALSE) lets the request pass
CheckRateLimit(k, sec, limit, ok) ==
    LET cur == RateKeyAt(k, sec)
        count == cur.count + 1
    IN  IF ok
        THEN [key |-> [cur EXCEPT !.count = count,
                                  !.passed = IF Allows(count, limit)
                                             THEN @ + 1 ELSE @],
              pass |-> Allows(count, limit)]
        ELSE [key |-> [cur EXCEPT !.passed = @ + 1, !.open = @ + 1],
              pass |-> TRUE]

\* HTTP 429 raised by the endpoint before the orchestrator is called
TooManyRequests(kind) == Return([Idle EXCEPT !.kind = kind], 429)

\* the store fails at most MaxStoreErrors counter increments of a second
StoreAnswers == {TRUE} \cup
    IF rate.STREAM_RATE.open + rate.EVAL_RATE.open < MaxStoreErrors
    THEN {FALSE} ELSE {}

\* POST /stream/keyboard arrives at the endpoint: rate-limit check first
ArriveKeyboard(w, max, ids, menu, scores) ==
    /\ Free(w)
    /\ nreq < max
    /\ \E ok \in StoreAnswers, b \in ids, es \in menu, sc \in scores :
          LET out == CheckRateLimit(rate.STREAM_RATE, EpochSecond(now),
                                    STREAM_RATE_LIMIT, ok)
          IN  /\ rate' = [rate EXCEPT !.STREAM_RATE = out.key]
              /\ req' = [req EXCEPT ![w] =
                           IF out.pass
                           THEN [Idle EXCEPT !.pc = "s_get", !.kind = "kb",
                                             !.batch_id = b, !.events = es,
                                             !.score = sc, !.ts = now]
                           ELSE TooManyRequests("kb")]
    /\ nreq' = nreq + 1
    /\ UNCHANGED << now, session, kbState, msState, dirty, hwm >>
    /\ UNCHANGED << modelVars, marks, trusted, first, dbrow, extractor, unitVars >>

\* POST /stream/mouse arrives at the endpoint: the same counter key
ArriveMouse(w, max, ids, menu, scores) ==
    /\ Free(w)
    /\ nreq < max
    /\ \E ok \in StoreAnswers, b \in ids, m \in menu, sc \in scores :
          LET out == CheckRateLimit(rate.STREAM_RATE, EpochSecond(now),
                                    STREAM_RATE_LIMIT, ok)
          IN  /\ rate' = [rate EXCEPT !.STREAM_RATE = out.key]
              /\ req' = [req EXCEPT ![w] =
                           IF out.pass
                           THEN [Idle EXCEPT !.pc = "s_get", !.kind = "ms",
                                             !.batch_id = b, !.n = m.n,
                                             !.strokes = m.strokes,
                                             !.score = sc, !.ts = now]
                           ELSE TooManyRequests("ms")]
    /\ nreq' = nreq + 1
    /\ UNCHANGED << now, session, kbState, msState, dirty, hwm >>
    /\ UNCHANGED << modelVars, marks, trusted, first, dbrow, extractor, unitVars >>

\* POST /evaluate arrives at the endpoint: its own counter key
ArriveEvaluate(w, max, ids, navs, scores) ==
    /\ Free(w)
    /\ nreq < max
    /\ \E ok \in StoreAnswers, e \in ids, nv \in navs, sc \in scores :
          LET out == CheckRateLimit(rate.EVAL_RATE, EpochSecond(now),
                                    EVAL_RATE_LIMIT, ok)
          IN  /\ rate' = [rate EXCEPT !.EVAL_RATE = out.key]
              /\ req' = [req EXCEPT ![w] =
                           IF out.pass
                           THEN [Idle EXCEPT !.pc = IF e = "" THEN "e_get"
                                                    ELSE "e_dedup",
                                             !.kind = "ev", !.eval_id = e,
                                             !.nav = nv, !.idscore = sc]
                           ELSE TooManyRequests("ev")]
    /\ nreq' = nreq + 1
    /\ UNCHANGED << now, session, kbState, msState, dirty, hwm >>
    /\ UNCHANGED << modelVars, marks, trusted, first, dbrow, extractor, unitVars >>

\* requests one after another, many within one second; every stream batch
\* carries batch id 1 and every evaluate the same eval_id; the evaluates are
\* among the first MaxRateEvals requests
NextRate ==
    \/ Quiet /\ now + TickMs <= MaxRateNow /\ Tick
    \/ \E w \in Workers :
          Quiet /\ ArriveKeyboard(w, MaxRateReqs, {1}, KbSmall(now), {0})
    \/ \E w \in Workers :
          Quiet /\ ArriveMouse(w, MaxRateReqs, {1}, MsSmall, {0})
    \/ \E w \in Workers :
          Quiet /\ ArriveEvaluate(w, MaxRateEvals, {"e1"}, {CleanNav}, {0})
    \/ StreamSteps
    \/ EvalSteps

SpecRate == Init /\ [][NextRate]_vars

\* worker w takes a request of the given kinds in this step
Arrives(w, kinds) ==
    /\ nreq' = nreq + 1
    /\ req[w].pc \in {"idle", "done"}
    /\ req'[w] # req[w]
    /\ req'[w].kind \in kinds

\* the counter key k was incremented by this step
Counted(k) == rate'[k].sec = EpochSecond(now) /\ rate'[k].count > 0
              /\ rate'[k].open = RateKeyAt(rate[k], EpochSecond(now)).open

\* C15 as stated: within one epoch second at most 20 stream requests
\* (keyboard and mouse combined) and at most 10 evaluate requests pass the
\* rate-limit check, and a rejected request gets 429 and is not processed.
C15_RateLimitPerSecond ==
    /\ [](rate.STREAM_RATE.passed <= STREAM_RATE_LIMIT)
    /\ [](rate.EVAL_RATE.passed <= EVAL_RATE_LIMIT)
    /\ [][\A w \in Workers :
            (Arrives(w, {"kb", "ms", "ev"}) /\ req'[w].status = 429) =>
                /\ req'[w].pc = "done"
                /\ UNCHANGED << session, kbState, msState, marks, first >>]_vars

\* C15, amended: of the requests whose counter increment the store answered,
\* at most 20 stream requests (keyboard and mouse combined) and at most 10
\* evaluate requests of one epoch second pass; every further answered request
\* of that second is rejected with 429 before the orchestrator is called and
\* changes no session, buffer or dedup state.  A request whose increment
\* fails passes unconditionally.
C15_RateLimitWhileStoreAnswers ==
    /\ [](rate.STREAM_RATE.passed - rate.STREAM_RATE.open <= STREAM_RATE_LIMIT)
    /\ [](rate.EVAL_RATE.passed - rate.EVAL_RATE.open <= EVAL_RATE_LIMIT)
    /\ [][\A w \in Workers :
            /\ (Arrives(w, {"kb", "ms"}) /\ Counted("STREAM_RATE")) =>
                  (req'[w].status = 429 <=>
                      rate'.STREAM_RATE.count > STREAM_RATE_LIMIT)
            /\ (Arrives(w, {"ev"}) /\ Counted("EVAL_RATE")) =>
                  (req'[w].status = 429 <=>
                      rate'.EVAL_RATE.count > EVAL_RATE_LIMIT)
            /\ (Arrives(w, {"kb", "ms", "ev"}) /\ req'[w].status = 429) =>
                  /\ req'[w].pc = "done"
                  /\ UNCHANGED << session, kbState, msState, marks,
                                  first >>]_vars

\* the 21st answered stream request of a second was rejected, after keyboard
\* and mouse batches of that second were accepted
C15_Witness ==
    \E w \in Workers :
        /\ req[w].pc = "done" /\ req[w].status = 429
        /\ req[w].kind \in {"kb", "ms"}
        /\ rate.STREAM_RATE.count = STREAM_RATE_LIMIT + 1
        /\ rate.STREAM_RATE.open = 0
        /\ rate.STREAM_RATE.passed = STREAM_RATE_LIMIT
        /\ session.last_keyboard_batch_id = 1
        /\ session.last_mouse_batch_id = 1

(***************************************************************************)
(* ModelStore: the stored blob, its checksum and load_model                 *)
(***************************************************************************)
MaxCorruptions == 2
MaxLoads == 2

\* base64 characters are their 6-bit values; PAD is '=' and BAD a character
\* outside the alphabet, which b64decode skips
PAD == 64
BAD == 65

\* the models saved: pickled as BININT1 and as BININT2
PickledModels == {5, 300}

\* pickle.dumps(model): PROTO 4, the integer opcode, STOP
Pickle(m) ==
    IF m < 256 THEN << 128, 4, 75, m, 46 >>
    ELSE << 128, 4, 77, m % 256, m \div 256, 46 >>

\* pickle.loads(blob): the model, or an exception
Unpickle(b) ==
    LET body == IF Len(b) >= 2 /\ b[1] = 128 /\ b[2] <= 5
                THEN SubSeq(b, 3, Len(b)) ELSE b
    IN  IF Len(body) >= 3 /\ body[1] = 75 /\ body[3] = 46
        THEN [ok |-> TRUE, model |-> body[2]]
        ELSE IF Len(body) >= 4 /\ body[1] = 77 /\ body[4] = 46
        THEN [ok |-> TRUE, model |-> body[2] + 256 * body[3]]
        ELSE [ok |-> FALSE, model |-> NONE]

\* hashlib.sha256(blob).hexdigest(): a digest that no two blobs share
Sha256(b) == [present |-> TRUE, digest |-> b]

RECURSIVE B64Encode(_)
\* base64.b64encode(blob)
B64Encode(b) ==
    IF Len(b) = 0 THEN << >>
    ELSE IF Len(b) = 1
    THEN << b[1] \div 4, (b[1] % 4) * 16, PAD, PAD >>
    ELSE IF Len(b) = 2
    THEN << b[1] \div 4, (b[1] % 4) * 16 + b[2] \div 16, (b[2] % 16) * 4,
            PAD >>
    ELSE << b[1] \div 4, (b[1] % 4) * 16 + b[2] \div 16,
            (b[2] % 16) * 4 + b[3] \div 64, b[3] % 64 >>
         \o B64Encode(SubSeq(b, 4, Len(b)))

RECURSIVE A2B(_, _, _, _, _, _)
\* binascii.a2b_base64, not strict: characters outside the alphabet are
\* skipped, decoding stops at complete padding, and a quad left open raises
A2B(s, i, quad_pos, leftchar, pads, out) ==
    IF i > Len(s) THEN [ok |-> quad_pos = 0, bytes |-> out]
    ELSE IF s[i] = PAD
    THEN IF quad_pos >= 2 /\ quad_pos + pads + 1 >= 4
         THEN [ok |-> TRUE, bytes |-> out]
         ELSE A2B(s, i + 1, quad_pos, leftchar,
                  IF quad_pos >= 2 THEN pads + 1 ELSE pads, out)
    ELSE IF s[i] = BAD
    THEN A2B(s, i + 1, quad_pos, leftchar, pads, out)
    ELSE IF quad_pos = 0
    THEN A2B(s, i + 1, 1, s[i], 0, out)
    ELSE IF quad_pos = 1
    THEN A2B(s, i + 1, 2, s[i] % 16, 0,
             Append(out, leftchar * 4 + s[i] \div 16))
    ELSE IF quad_pos = 2
    THEN A2B(s, i + 1, 3, s[i] % 4, 0,
             Append(out, leftchar * 16 + s[i] \div 4))
    ELSE A2B(s, i + 1, 0, 0, 0, Append(out, leftchar * 64 + s[i]))

\* base64.b64decode(blob)
B64Decode(s) == A2B(s, 1, 0, 0, 0, << >>)

ChecksumMatchesMut(bytes, checksum) == TRUE
\* computed == stored_checksum
ChecksumMatches(bytes, checksum) == Sha256(bytes) = checksum

\* load_model: the model of the row, or None (NONE)
LoadModel(r) ==
    IF ~r.exists THEN NONE
    ELSE IF Len(r.model_blob) % 4 # 0 THEN NONE
    ELSE LET dec == B64Decode(r.model_blob)
         IN  IF ~dec.ok THEN NONE
             ELSE IF r.checksum.present
                     /\ ~ChecksumMatches(dec.bytes, r.checksum)
             THEN NONE
             ELSE IF Unpickle(dec.bytes).ok
             THEN Unpickle(dec.bytes).model
             ELSE NONE

\* the record save_model writes
SaveRow(m) ==
    [NoRow EXCEPT !.exists = TRUE,
                  !.model_blob = B64Encode(Pickle(m)),
                  !.checksum = Sha256(Pickle(m)),
                  !.saved = m]

notRow == << now, session, kbState, msState, dirty, req, nreq, hwm,
             models, locks, lrn, nlearn, marks, trusted, first, rate,
             extractor, unitVars >>

\* save_model inserts the row
SaveBlob ==
    /\ ~dbrow.exists
    /\ \E m \in PickledModels : dbrow' = SaveRow(m)
    /\ UNCHANGED notRow

\* characters a corruption writes
CorruptChars == {0, 1, 46, 63, PAD, BAD}

\* the stored blob is damaged: one character is overwritten, the last one is
\* lost, or a character is added at the end
CorruptBlob ==
    /\ dbrow.exists
    /\ dbrow.corruptions < MaxCorruptions
    /\ \E blob \in
            { [dbrow.model_blob EXCEPT ![i] = c] :
                  i \in 1..Len(dbrow.model_blob), c \in CorruptChars }
            \cup { SubSeq(dbrow.model_blob, 1, Len(dbrow.model_blob) - 1) }
            \cup { Append(dbrow.model_blob, c) : c \in CorruptChars } :
          /\ blob # dbrow.model_blob
          /\ dbrow' = [dbrow EXCEPT !.model_blob = blob,
                                    !.corruptions = @ + 1]
    /\ UNCHANGED notRow

\* load_model is called
LoadBlob ==
    /\ dbrow.loads < MaxLoads
    /\ dbrow' = [dbrow EXCEPT !.loaded = LoadModel(dbrow), !.loads = @ + 1]
    /\ UNCHANGED notRow

NextLoad == SaveBlob \/ CorruptBlob \/ LoadBlob

SpecLoad == Init /\ [][NextLoad]_vars

\* the stored blob fails an integrity check of load_model
FailsIntegrity(r) ==
    \/ Len(r.model_blob) % 4 # 0
    \/ ~B64Decode(r.model_blob).ok
    \/ Sha256(B64Decode(r.model_blob).bytes) # r.checksum

\* C16: load_model returns a model only when the stored blob passes the
\* integrity checks, and then it is the model that was saved; a blob that no
\* longer matches the checksum written at save time, or whose base64 length
\* is no multiple of 4, makes load_model return None.
C16_LoadChecksIntegrity ==
    /\ [](dbrow.exists => dbrow.checksum = Sha256(Pickle(dbrow.saved)))
    /\ [][dbrow'.loads = dbrow.loads + 1 =>
            /\ dbrow'.loaded # NONE =>
                  /\ dbrow.exists
                  /\ ~FailsIntegrity(dbrow)
                  /\ dbrow'.loaded = dbrow.saved
            /\ (dbrow.exists /\ FailsIntegrity(dbrow)) =>
                  dbrow'.loaded = NONE]_vars

\* a damaged blob of valid length that decodes was refused for its checksum
C16_Witness ==
    /\ dbrow.exists /\ dbrow.loads > 0 /\ dbrow.corruptions > 0
    /\ Len(dbrow.model_blob) % 4 = 0
    /\ B64Decode(dbrow.model_blob).ok
    /\ Unpickle(B64Decode(dbrow.model_blob).bytes).ok
    /\ Sha256(B64Decode(dbrow.model_blob).bytes) # dbrow.checksum
    /\ dbrow.loaded = NONE

(***************************************************************************)
(* Evaluate without a readable session                                      *)
(***************************************************************************)
MaxUnreadReqs == 3

\* get_session catches the store's error and returns None: on the cached
\* path evaluate falls through to its own read, there it answers CHALLENGE
EvalReadFails(w) ==
    /\ req[w].pc \in {"e_cached", "e_get"}
    /\ LET r == req[w]
       IN  req' = [req EXCEPT ![w] =
                IF r.pc = "e_cached"
                THEN [r EXCEPT !.pc = "e_get"]
                ELSE EvalReturn(r, 200, NoSessionResponse, FALSE)]
    /\ UNCHANGED << now, session, kbState, msState, dirty, nreq, hwm >>
    /\ UNCHANGED << modelVars, evalVars >>

NextUnread ==
    \/ \E w \in Workers :
          StartKeyboard(w, MaxUnreadReqs, {nreq + 1}, KbSmall(now), {0})
    \/ \E w \in Workers :
          StartEvaluate(w, MaxUnreadReqs, EvalIds, {CleanNav}, {0})
    \/ \E w \in Workers : StreamGetSession(w)
    \/ \E w \in Workers : StreamCreateSession(w)
    \/ \E w \in Workers : KbProcess(w)
    \/ \E w \in Workers : StreamWatch(w)
    \/ \E w \in Workers : KbExec(w)
    \/ EvalSteps
    \/ \E w \in Workers : EvalReadFails(w)

SpecUnread == Init /\ [][NextUnread]_vars

\* the evaluate of worker w ends at its session read in this step
EndsAtRead(w) ==
    /\ req[w].kind = "ev" /\ req[w].pc = "e_get" /\ req'[w].pc = "done"

\* C17: an evaluate that finds no stored session, or cannot read it, answers
\* CHALLENGE, risk 0.5, mode NORMAL, and neither that step nor any earlier
\* step of the request changes session, buffer, dedup or model state.
C17_NoSessionChallenge ==
    [][\A w \in Workers :
         /\ (req[w].kind = "ev" /\ req[w].pc = "e_get"
             /\ req'[w] # req[w] /\ ~session.exists) => EndsAtRead(w)
         /\ EndsAtRead(w) =>
               /\ req'[w].status = 200
               /\ req'[w].decision = "CHALLENGE"
               /\ req'[w].risk = 500
               /\ req'[w].mode = "NORMAL"
         /\ (req'[w] # req[w] /\ req'[w].kind = "ev"
             /\ req[w].pc \in {"idle", "done", "e_dedup", "e_cached",
                               "e_get"}
             /\ req'[w].pc \in {"e_dedup", "e_cached", "e_get", "done"}) =>
               UNCHANGED << session, kbState, msState, hwm, marks, trusted,
                            first, models, locks, lrn >>]_vars

\* an evaluate was answered CHALLENGE 0.5 because no session is stored,
\* while a stream request is about to create one
C17_Witness ==
    \E w, v \in Workers :
        /\ req[w].pc = "done" /\ req[w].kind = "ev" /\ req[w].status = 200
        /\ req[w].decision = "CHALLENGE" /\ req[w].risk = 500
        /\ req[w].mode = "NORMAL" /\ ~req[w].cached
        /\ ~session.exists
        /\ req[v].kind = "kb" /\ req[v].pc = "s_create"

(***************************************************************************)
(* Strike decay under concurrent evaluates                                  *)
(***************************************************************************)
MaxDecayReqs == 3

\* sessions as an evaluate answered CHALLENGE at StartTime left them, with
\* one, two or five half-strikes, and a session never evaluated
DecaySessions ==
    {NewSession(StartTime)}
      \cup {[NewSession(StartTime) EXCEPT
                !.mode = "CHALLENGE", !.challenge_entered_ts = StartTime,
                !.strikes = n, !.last_decision = "CHALLENGE",
                !.last_risk = 500, !.last_eval_ts = StartTime,
                !.last_verified_ts = StartTime, !.last_eval_id = ""] :
               n \in {1, 2, 5}}

InitDecay ==
    /\ now = StartTime
    /\ session \in DecaySessions
    /\ kbState = NewKeyboardState
    /\ msState = NewMouseState
    /\ dirty = [w \in Workers |-> FALSE]
    /\ req = [w \in Workers |-> Idle]
    /\ nreq = 0
    /\ hwm = [K |-> 0, M |-> 0]
    /\ models = [mt \in ModelTypes |->
                    IF mt = "keyboard_hst" THEN MatureModel ELSE NoModel]
    /\ locks = [p \in Procs |-> [mt \in ModelTypes |-> 0]]
    /\ lrn = [l \in Learners |-> IdleLearner]
    /\ nlearn = 0
    /\ marks = [e \in EvalIds |-> 0]
    /\ trusted = TRUE
    /\ first = [e \in EvalIds |-> NoResp]
    /\ rate = NoRate
    /\ dbrow = NoRow
    /\ extractor = FreshExtractor
    /\ profile = NoProfile
    /\ tracker = NewTracker
    /\ stroke = NoStroke
    /\ analysis = NoAnalysis

\* evaluates and keyboard batches of consecutive ids, concurrently, while
\* time passes
NextDecay ==
    \/ Tick
    \/ \E w \in Workers :
          StartKeyboard(w, MaxDecayReqs, {nreq + 1}, KbSmall(now), {0})
    \/ \E w \in Workers :
          StartEvaluate(w, MaxDecayReqs, {""}, {CleanNav}, {0})
    \/ \E w \in Workers : StreamGetSession(w)
    \/ \E w \in Workers : KbProcess(w)
    \/ \E w \in Workers : StreamWatch(w)
    \/ \E w \in Workers : KbExec(w)
    \/ \E w \in Workers : EvalGetSession(w)
    \/ \E w \in Workers : EvalCompute(w)
    \/ \E w \in Workers : EvalWatch(w)
    \/ \E w \in Workers : EvalExec(w)
    \/ \E w \in Workers : EvalMark(w)

SpecDecay == InitDecay /\ [][NextDecay]_vars

\* a write of an evaluate that answered CHALLENGE or BLOCK, or of a stream
\* batch behind a gap, commits in this step
StrikingStep ==
    \E w \in Workers :
        \/ Leaves(w, "e_exec") /\ req[w].decision \in {"CHALLENGE", "BLOCK"}
        \/ Leaves(w, "s_exec") /\ IsGapBatch(req[w])

\* the strikes after the decay step of an evaluate that read session s at t
DecayedStrikes(s, t) ==
    Max2(0, s.strikes - Min2(6, (t - s.last_strike_decay_ts) \div 10000))

\* C18: while no evaluate answers CHALLENGE or BLOCK and no stream gap reset
\* occurs, the stored strikes never increase and never drop below 0; the
\* decay step of an evaluate subtracts half a strike per full 10 s since the
\* last decay, at most 6 times.
C18_StrikesOnlyDecay ==
    /\ [](session.exists => session.strikes >= 0)
    /\ [][(session.exists /\ session'.exists /\ ~StrikingStep) =>
             session'.strikes <= session.strikes]_vars
    /\ [][\A w \in Workers :
            (Leaves(w, "e_compute") /\ req'[w].decision = "ALLOW") =>
                req'[w].sess.strikes = DecayedStrikes(req[w].sess, now)]_vars

(***************************************************************************)
(* KeyboardProcessor.process_event, one event at a time                     *)
(***************************************************************************)
MaxKeystrokes == 61

notExtractor == << now, session, kbState, msState, dirty, req, nreq, hwm,
                   models, locks, lrn, nlearn, marks, trusted, first, rate,
                   dbrow, unitVars >>

\* process_event(event) for a DOWN or UP of key: the DOWN is queued and
\* counted, the UP is paired with the oldest queued DOWN of its key, and
\* features are returned when the counter says so
ProcessEvent(event_type, key) ==
    /\ event_type = "D" => extractor._keystroke_count < MaxKeystrokes
    /\ LET x == extractor
           count == IF event_type = "D" THEN x._keystroke_count + 1
                    ELSE x._keystroke_count
           paired == event_type = "U" /\ x._pending_downs[key] > 0
       IN  extractor' =
             [ _keystroke_count |-> count,
               _pending_downs |->
                   [x._pending_downs EXCEPT ![key] =
                       IF event_type = "D" THEN @ + 1
                       ELSE IF paired THEN @ - 1 ELSE @],
               _key_presses |-> IF paired THEN x._key_presses + 1
                                ELSE x._key_presses,
               event_type |-> event_type,
               returned |-> ShouldEmit(count, Ev(event_type, now)) ]
    /\ UNCHANGED notExtractor

NextExtractor ==
    \E event_type \in {"D", "U"}, key \in {"a", "b"} :
        ProcessEvent(event_type, key)

SpecExtractor == Init /\ [][NextExtractor]_vars

\* DOWN events processed so far, counted from the pairing bookkeeping
DownsSeen(x) ==
    x._key_presses + x._pending_downs["a"] + x._pending_downs["b"]

\* C19: a fresh extractor returns features exactly when it processes the
\* 50th DOWN event and every 5th DOWN event after it, and never when it
\* processes an UP event.
C19_EmitsAtWindowAndStride ==
    /\ [](extractor.returned <=>
            /\ extractor.event_type = "D"
            /\ \E j \in 0..MaxKeystrokes :
                  DownsSeen(extractor) = 50 + 5 * j)
    /\ [](extractor.event_type = "U" => ~extractor.returned)

\* the 55th DOWN returned features, with DOWNs of both keys still unpaired
\* and some pairs completed
C19_Witness ==
    /\ extractor.returned
    /\ DownsSeen(extractor) = 55
    /\ extractor._key_presses > 0
    /\ extractor._pending_downs["a"] > 0
    /\ extractor._pending_downs["b"] > 0

(***************************************************************************)
(* Keyboard windows across consecutive batches                              *)
(***************************************************************************)
MaxWindowReqs == 3

\* n DOWN events whose UPs never arrive, all stamped ts
Downs(n, ts) == [i \in 1..n |-> Ev("D", ts)]

\* payloads whose events carry the batch number b as their timestamp: 20
\* presses, 30 presses, 55 presses (windows at 50 and 55), 50 bare DOWNs
\* (a window at the last event)
WindowBatches(b) ==
    {Typing(20, b), Typing(30, b), Typing(55, b), Downs(50, b)}

NextWindows ==
    \/ \E w \in Workers :
          StartKeyboard(w, MaxWindowReqs, {nreq + 1},
                        WindowBatches(nreq + 1), {0})
    \/ \E w \in Workers : StreamGetSession(w)
    \/ \E w \in Workers : StreamCreateSession(w)
    \/ \E w \in Workers : KbProcess(w)
    \/ \E w \in Workers : StreamWatch(w)
    \/ \E w \in Workers : KbExec(w)

SpecWindows == Init /\ [][NextWindows]_vars

\* C20: no window is emitted twice across accepted keyboard batches: the
\* stored pending events never replay into a window, every stored window was
\* emitted at an event of the batch that scored it, no two stored windows
\* are the same, and a batch that emitted a window stores no pending events.
C20_NoWindowTwice ==
    /\ [](ProcessEvents(0, kbState.pending_events).emits = << >>)
    /\ [](\A i \in 1..Len(kbState.completed_windows) :
             /\ kbState.completed_windows[i].event_ts =
                    kbState.completed_windows[i].b
             /\ \A j \in 1..Len(kbState.completed_windows) :
                   kbState.completed_windows[i] = kbState.completed_windows[j]
                       => i = j)
    /\ [][\A w \in Workers :
            (/\ Leaves(w, "s_exec") /\ req[w].kind = "kb"
             /\ req'[w].committed
             /\ \E i \in 1..Len(kbState'.completed_windows) :
                   kbState'.completed_windows[i].b = req[w].batch_id)
                => kbState'.pending_events = << >>]_vars

\* windows of an earlier batch are stored, and a later accepted batch left
\* pending events behind after replaying what the window batch had left
C20_Witness ==
    /\ kbState.completed_windows # << >>
    /\ kbState.pending_events # << >>
    /\ \A i \in 1..Len(kbState.completed_windows) :
          kbState.completed_windows[i].b < session.last_keyboard_batch_id
    /\ kbState.pending_events[1].t = session.last_keyboard_batch_id

(***************************************************************************)
(* Trusted context: the known devices of a user                             *)
(***************************************************************************)
MAX_KNOWN_DEVICES == 20
MaxTofuReqs == 3

Members(seq) == {seq[i] : i \in 1..Len(seq)}

\* _cap_known_devices: SPOP removes a member of the store's choice while the
\* set holds more than 20; the sets it can leave
RECURSIVE CapKnownDevices(_)
CapKnownDevices(devices) ==
    IF Cardinality(devices) <= MAX_KNOWN_DEVICES THEN {devices}
    ELSE UNION {CapKnownDevices(devices \ {d}) : d \in devices}

\* get_user_context, known_device_hashes: the members of the set
KnownDeviceHashes(pf) == pf.devices

CalcIsNewDeviceMut(device_id, known_devices) ==
    IF device_id = 0 THEN 0 ELSE ONE
\* _calc_is_new_device; device_id 0: the request has no client fingerprint
CalcIsNewDevice(device_id, known_devices) ==
    IF device_id = 0 THEN 0
    ELSE IF device_id \notin known_devices THEN ONE
    ELSE 0

\* get_trusted_context: whether a context was found, and the profile after
\* the backfill of the cache from the row
GetTrustedContext(pf) ==
    IF pf.devices # {}
    THEN [found |-> TRUE, profile |-> pf]
    ELSE IF pf.known_devices = << >>
    THEN [found |-> FALSE, profile |-> pf]
    ELSE [found |-> TRUE,
          profile |-> [pf EXCEPT !.devices = Members(pf.known_devices)]]

\* save_trusted_context: the row is inserted or its known_devices extended,
\* then SADD and _cap_known_devices; the profiles it can leave
SaveTrustedContext(pf, device_id) ==
    LET existing_devices ==
            IF device_id \in Members(pf.known_devices) THEN pf.known_devices
            ELSE Append(pf.known_devices, device_id)
        saved == [pf EXCEPT !.known_devices = existing_devices]
    IN  {[saved EXCEPT !.devices = capped] :
            capped \in CapKnownDevices(pf.devices \cup {device_id})}

\* POST /evaluate arrives with client fingerprint device_id d (0: without)
StartFingerprinted(w, max, devices, navs) ==
    /\ Free(w)
    /\ nreq < max
    /\ \E d \in devices, nv \in navs :
          req' = [req EXCEPT ![w] =
                    [Idle EXCEPT !.pc = "e_get", !.kind = "ev",
                                 !.device = d, !.nav = nv]]
    /\ nreq' = nreq + 1
    /\ UNCHANGED << now, session, kbState, msState, dirty, hwm >>
    /\ UNCHANGED << modelVars, evalVars >>

\* evaluate from the context metrics to the commit of the session, for a
\* session without completed windows (nothing is learned): is_new_device
\* from the cached set, the TOFU check, the decision, and on ALLOW in mode
\* NORMAL with a fingerprint save_trusted_context
EvalComputeContext(w) ==
    /\ req[w].pc = "e_compute"
    /\ kbState.completed_windows = << >>
    /\ LET p == [req[w] EXCEPT !.nav.is_new_device =
                    CalcIsNewDevice(req[w].device, KnownDeviceHashes(profile))]
           trusted_context == GetTrustedContext(profile)
           r == EvalDecided(p, EvalDecide(p.sess, kbState, msState,
                                          trusted_context.found,
                                          models["keyboard_hst"],
                                          models["keyboard_identity"], p, now),
                            kbState, models["keyboard_hst"], now)
           saves == r.decision = "ALLOW" /\ r.sess.mode = "NORMAL"
                       /\ r.device # 0
           allowed == IF r.decision = "ALLOW" /\ r.device # 0
                      THEN profile.allowed \cup {r.device}
                      ELSE profile.allowed
       IN  /\ req' = [req EXCEPT ![w] =
                        [r EXCEPT !.pc = "e_watch",
                                  !.sess = FinishSession(r.sess, r.decision,
                                               r.risk, r.eval_id, r.fnow)]]
           /\ \E pf \in IF saves
                        THEN SaveTrustedContext(trusted_context.profile,
                                                r.device)
                        ELSE {trusted_context.profile} :
                 profile' = [pf EXCEPT !.allowed = allowed]
           /\ trusted' = (trusted \/ saves)
    /\ UNCHANGED << now, session, kbState, msState, dirty, nreq, hwm >>
    /\ UNCHANGED << modelVars, marks, first, rate, dbrow, extractor >>
    /\ UNCHANGED << tracker, stroke, analysis >>

\* the devices of the requests, and twenty others
TofuDevices == {1, 2}
OtherDevices == [i \in 1..MAX_KNOWN_DEVICES |-> i + 2]

\* sessions as an evaluate left them (DecaySessions), a session in mode
\* CHALLENGE since time 0 that four evaluates in a row have answered ALLOW,
\* and a session in mode NORMAL that evaluates answered ALLOW until its
\* trust score was 1
TofuSessions ==
    DecaySessions
      \cup {[NewSession(0) EXCEPT
                !.mode = m, !.consecutive_allows = 4, !.trust_score = ts,
                !.last_decision = "ALLOW", !.last_risk = 0,
                !.last_eval_ts = StartTime, !.last_verified_ts = StartTime,
                !.last_activity_ts = StartTime, !.last_eval_id = "",
                !.identity_ready = TRUE] :
               << m, ts >> \in {<< "CHALLENGE", 0 >>, << "NORMAL", ONE >>}}

\* a user never seen, a user known from twenty other devices, and a user
\* known from device 1 whose cached set was lost
TofuProfiles ==
    {NoProfile,
     [NoProfile EXCEPT !.devices = Members(OtherDevices),
                       !.known_devices = OtherDevices],
     [NoProfile EXCEPT !.known_devices = << 1 >>]}

InitTofu ==
    /\ now = StartTime
    /\ session \in TofuSessions
    /\ kbState = NewKeyboardState
    /\ msState = NewMouseState
    /\ dirty = [w \in Workers |-> FALSE]
    /\ req = [w \in Workers |-> Idle]
    /\ nreq = 0
    /\ hwm = [K |-> 0, M |-> 0]
    /\ models = [mt \in ModelTypes |->
                    IF mt = "keyboard_hst" THEN MatureModel ELSE NoModel]
    /\ locks = [p \in Procs |-> [mt \in ModelTypes |-> 0]]
    /\ lrn = [l \in Learners |-> IdleLearner]
    /\ nlearn = 0
    /\ marks = [e \in EvalIds |-> 0]
    /\ profile \in TofuProfiles
    /\ trusted = GetTrustedContext(profile).found
    /\ first = [e \in EvalIds |-> NoResp]
    /\ rate = NoRate
    /\ dbrow = NoRow
    /\ extractor = FreshExtractor
    /\ tracker = NewTracker
    /\ stroke = NoStroke
    /\ analysis = NoAnalysis

\* evaluates one after the other, from devices 1 and 2, while time passes
NextTofu ==
    \/ Quiet /\ Tick
    \/ \E w \in Workers :
          Quiet /\ StartFingerprinted(w, MaxTofuReqs, TofuDevices,
                                      {CleanNav, TravelNav})
    \/ \E w \in Workers : EvalGetSession(w)
    \/ \E w \in Workers : EvalComputeContext(w)
    \/ \E w \in Workers : EvalWatch(w)
    \/ \E w \in Workers : EvalExec(w)
    \/ \E w \in Workers : EvalMark(w)

SpecTofu == InitTofu /\ [][NextTofu]_vars

\* the evaluate of worker w decides in this step
Decides(w) == req[w].pc = "e_compute" /\ req'[w].pc = "e_watch"

STRIKE_THRESHOLD == 3
MaxStrokes == 12

notTracker == << now, session, kbState, msState, dirty, req, nreq, hwm,
                 models, locks, lrn, nlearn, marks, trusted, first, rate,
                 dbrow, extractor, profile, stroke, analysis >>

RecordStrokeMut(t, score) ==
    LET strikes == IF score >= ONE THEN t._strikes + 1
                   ELSE Max2(0, t._strikes - 1)
    IN  [t EXCEPT !._total_strokes = @ + 1,
                  !._strikes = strikes,
                  !._bot_strokes = IF score >= ONE THEN @ + 1 ELSE @,
                  !._session_flagged = strikes >= STRIKE_THRESHOLD]
\* record_stroke(score, reasons), the score in thousandths
RecordStroke(t, score) ==
    LET counted == [t EXCEPT !._total_strokes = @ + 1]
        struck == [counted EXCEPT !._strikes = @ + 1, !._bot_strokes = @ + 1]
    IN  IF score >= ONE
        THEN IF struck._strikes >= STRIKE_THRESHOLD /\ ~struck._session_flagged
             THEN [struck EXCEPT !._session_flagged = TRUE]
             ELSE struck
        ELSE [counted EXCEPT !._strikes = Max2(0, @ - 1)]

\* tracker.record_stroke is called with a verdict of the physics model: 0.0
\* or 1.0
Record(score) ==
    /\ tracker._total_strokes < MaxStrokes
    /\ tracker' = RecordStroke(tracker, score)
    /\ UNCHANGED notTracker

NextTracker == Record(0) \/ Record(ONE)

\* a tracker records strokes from construction on; the other specifications
\* leave the tracker alone
SpecTracker == Init /\ [][NextTracker]_vars

\* what the stroke recorded in this step scored: the one counter moves on a
\* bot stroke, and only then
BotStroke == tracker'._bot_strokes = tracker._bot_strokes + 1

\* C22: a stroke of risk 1 adds one strike, a stroke of risk 0 removes one
\* but never below 0; the session is flagged as soon as the strikes reach 3,
\* not before the first time they do, and a flagged session stays flagged
\* whatever strokes are recorded afterwards.
C22_StrikesAndStickyFlag ==
    /\ [](tracker._strikes >= 0)
    /\ [](tracker._strikes >= STRIKE_THRESHOLD => tracker._session_flagged)
    /\ [](tracker._session_flagged
             => tracker._bot_strokes >= STRIKE_THRESHOLD)
    /\ [][/\ tracker'._strikes =
                IF BotStroke THEN tracker._strikes + 1
                ELSE IF tracker._strikes = 0 THEN 0
                ELSE tracker._strikes - 1
          /\ tracker._session_flagged => tracker'._session_flagged
          /\ (~tracker._session_flagged /\ tracker'._session_flagged)
                => tracker'._strikes = STRIKE_THRESHOLD]_vars

\* a session flagged by three bot strokes whose strikes later human strokes
\* took back to 0
C22_Witness ==
    /\ tracker._session_flagged
    /\ tracker._strikes = 0
    /\ tracker._bot_strokes = STRIKE_THRESHOLD
    /\ tracker._total_strokes = 2 * STRIKE_THRESHOLD

(***************************************************************************)
(* PhysicsMouseModel.score_one                                              *)
(***************************************************************************)
\* thresholds and weights in thousandths
TELEPORT_SPEED == 9000
INHUMAN_PATH_MIN == 300000
INHUMAN_LINEARITY_MAX == 200
MIN_TIMING_SEGMENTS == 20
SUSPICIOUS_TIME_STD == 20
SUSPICIOUS_VELOCITY_STD == 10
SUSPICIOUS_PATH_MIN == 150000
SUSPICIOUS_LINEARITY_MAX == 500
WEIGHT_TIMING == 350
WEIGHT_JITTER == 250
WEIGHT_LINEARITY == 250
PHYSICS_RISK_THRESHOLD == 700

TeleportsMut(velocity_max) == velocity_max > 2 * TELEPORT_SPEED
\* "Teleport speed - no human can sustain this"
Teleports(velocity_max) == velocity_max > TELEPORT_SPEED

\* score_one(features): the risk score and the anomaly vectors
ScoreOne(f) ==
    LET timing == f.segment_count >= MIN_TIMING_SEGMENTS
                     /\ f.time_diff_std < SUSPICIOUS_TIME_STD
        jitter == f.velocity_std < SUSPICIOUS_VELOCITY_STD
        linear == f.path_distance > SUSPICIOUS_PATH_MIN
                     /\ f.linearity_error < SUSPICIOUS_LINEARITY_MAX
        risk == (IF timing THEN WEIGHT_TIMING ELSE 0)
                  + (IF jitter THEN WEIGHT_JITTER ELSE 0)
                  + (IF linear THEN WEIGHT_LINEARITY ELSE 0)
        reasons == (IF timing THEN << "overly_regular_timing" >> ELSE << >>)
                     \o (IF jitter THEN << "low_velocity_jitter" >> ELSE << >>)
                     \o (IF linear THEN << "excessive_linearity" >> ELSE << >>)
    IN  IF Teleports(f.velocity_max)
        THEN [score |-> ONE, reasons |-> << "teleport_speed" >>]
        ELSE IF f.path_distance > INHUMAN_PATH_MIN
                /\ f.linearity_error < INHUMAN_LINEARITY_MAX
        THEN [score |-> ONE, reasons |-> << "inhuman_linearity" >>]
        ELSE IF risk >= PHYSICS_RISK_THRESHOLD
        THEN [score |-> ONE, reasons |-> reasons]
        ELSE [score |-> 0, reasons |-> << >>]

\* feature vectors with each feature below, at and above the thresholds it
\* is compared with
FeatureVectors ==
    [velocity_max : {0, 5000, TELEPORT_SPEED, TELEPORT_SPEED + 1, 20000},
     velocity_std : {5, SUSPICIOUS_VELOCITY_STD, 1000},
     path_distance : {0, 200000, 400000},
     time_diff_std : {10, 10000},
     segment_count : {0, MIN_TIMING_SEGMENTS},
     linearity_error : {100, 300, 1000}]

\* the model scores the next stroke of the session
ScoreStroke ==
    /\ \E f \in FeatureVectors :
          stroke' = [features |-> f, scored |-> TRUE,
                     score |-> ScoreOne(f).score,
                     reasons |-> ScoreOne(f).reasons]
    /\ UNCHANGED << now, session, kbState, msState, dirty, req, nreq, hwm >>
    /\ UNCHANGED << modelVars, marks, trusted, first, rate, dbrow, extractor >>
    /\ UNCHANGED << profile, tracker, analysis >>

SpecPhysics == Init /\ [][ScoreStroke]_vars

\* C23: a feature vector whose velocity_max exceeds 9 px/ms scores risk 1
\* with the one tag teleport_speed, whatever its other features are.
C23_TeleportIsBot ==
    (stroke.scored /\ stroke.features.velocity_max > 9000)
        => /\ stroke.score = ONE
           /\ stroke.reasons = << "teleport_speed" >>

\* a stroke just above 9 px/ms that also is impossibly straight and regular
C23_Witness ==
    /\ stroke.scored
    /\ stroke.features.velocity_max = 9001
    /\ stroke.features.path_distance = 400000
    /\ stroke.features.linearity_error = 100
    /\ stroke.features.velocity_std = 5
    /\ stroke.score = ONE

(***************************************************************************)
(* NavigatorPolicyEngine.evaluate                                           *)
(***************************************************************************)
AnomalyVectorsMut(m) ==
    IF m.geo_velocity_mph > 2 * POLICY_MAX_VELOCITY
    THEN {"impossible_travel"} ELSE {}
\* PolicyEngine.evaluate, the anomaly vectors
AnomalyVectors(m) ==
    (IF m.geo_velocity_mph > POLICY_MAX_VELOCITY
     THEN {"impossible_travel"} ELSE {})
      \cup (IF m.device_ip_mismatch = ONE THEN {"infra_mismatch"} ELSE {})
      \cup (IF m.policy_violation = ONE THEN {"policy_violation"} ELSE {})
      \cup (IF m.is_unknown_user_agent = ONE
            THEN {"unknown_user_agent"} ELSE {})

\* metric sets: the velocity at the CHALLENGE threshold (250 mph), at the
\* BLOCK threshold (425 mph), at and above 500 mph, each flag off and on
MetricSets ==
    [geo_velocity_mph : {0, 250, 300, 425, POLICY_MAX_VELOCITY,
                         POLICY_MAX_VELOCITY + 1, 100000},
     device_ip_mismatch : {0, ONE},
     policy_violation : {0, ONE},
     is_new_device : {0, ONE},
     is_unknown_user_agent : {0, ONE}]

\* policy_engine.evaluate(metrics)
PolicyEvaluate ==
    /\ \E m \in MetricSets :
          analysis' = [metrics |-> m, evaluated |-> TRUE,
                       decision |-> PolicyDecision(PolicyRisk(m)),
                       risk_score |-> PolicyRisk(m),
                       anomaly_vectors |-> AnomalyVectors(m)]
    /\ UNCHANGED << now, session, kbState, msState, dirty, req, nreq, hwm >>
    /\ UNCHANGED << modelVars, marks, trusted, first, rate, dbrow, extractor >>
    /\ UNCHANGED << profile, tracker, stroke >>

SpecPolicy == Init /\ [][PolicyEvaluate]_vars

\* C24: a metric set whose geo_velocity_mph exceeds 500 is answered BLOCK
\* with impossible_travel among the anomaly vectors, whatever the other
\* metrics are.
C24_ImpossibleTravelBlocks ==
    (analysis.evaluated /\ analysis.metrics.geo_velocity_mph > 500)
        => /\ analysis.decision = "BLOCK"
           /\ "impossible_travel" \in analysis.anomaly_vectors

\* 501 mph from a known device, with no other anomaly
C24_Witness ==
    /\ analysis.evaluated
    /\ analysis.metrics.geo_velocity_mph = 501
    /\ analysis.metrics.is_new_device = 0
    /\ analysis.anomaly_vectors = {"impossible_travel"}
    /\ analysis.decision = "BLOCK"

\* C25: the stored model_version of a model type never decreases, whatever
\* loads, saves and learn_with_retry calls run, a rebuild after a load that
\* returned None included.
C25_VersionNeverDecreases ==
    [][\A mt \in ModelTypes :
          models'[mt].model_version >= models[mt].model_version]_vars

\* C26: the cached device set and the known_devices of the durable row hold
\* at most 20 devices each, whatever saves and backfills have run.
C26_KnownDevicesCapped ==
    /\ Cardinality(profile.devices) <= MAX_KNOWN_DEVICES
    /\ Len(profile.known_devices) <= MAX_KNOWN_DEVICES

EvalAnswers(w) ==
    req[w].kind = "ev" /\ req[w].pc # "done" /\ req'[w].pc = "done"

LearningSessions(k) ==
    {[s EXCEPT !.consecutive_allows = ca,
               !.learning_suspended_until = su] :
       s \in FusionSessions(k), ca \in {0, 4},
       su \in {0, StartTime + LEARNING_SUSPENSION_DURATION_MS}}

InitLearning ==
    /\ now = StartTime
    /\ kbState \in FusionKeyboards
    /\ session \in LearningSessions(kbState)
    /\ msState = NewMouseState
    /\ dirty = [w \in Workers |-> FALSE]
    /\ req = [w \in Workers |-> Idle]
    /\ nreq = 0
    /\ hwm = [K |-> 0, M |-> 0]
    /\ \E idm \in {NoModel, MatureModel},
          hst \in {NoModel, HalfModel} :
          models = [mt \in ModelTypes |->
                      IF mt = "keyboard_identity" THEN idm ELSE hst]
    /\ locks = [p \in Procs |-> [mt \in ModelTypes |-> 0]]
    /\ lrn = [l \in Learners |-> IdleLearner]
    /\ nlearn = 0
    /\ marks = [e \in EvalIds |-> 0]
    /\ trusted \in BOOLEAN
    /\ first = [e \in EvalIds |-> NoResp]
    /\ rate = NoRate
    /\ dbrow = NoRow
    /\ extractor = FreshExtractor
    /\ profile = NoProfile
    /\ tracker = NewTracker
    /\ stroke = NoStroke
    /\ analysis = NoAnalysis

SpecLearning == InitLearning /\ [][NextFusion]_vars

\* worker w's evaluate passes from the decision to what follows it
Finalizes(w) == req[w].pc = "e_compute" /\ req'[w].pc # "e_compute"

\* worker w's evaluate calls learn_with_retry for model type mt
StartsLearning(w, mt) ==
    /\ req[w].kind = "ev"
    /\ lrn[w].pc = "idle"
    /\ lrn'[w].pc = "l_acquire"
    /\ lrn'[w].mt = mt

\* C29: an evaluate trains the per-user HST model only when it finalizes its
\* decision, and then exactly when the session has completed windows and
\* either the decision is ALLOW, learning is not suspended and the mode is
\* NORMAL or the stored HST has fewer than 50 windows, or the decision is
\* CHALLENGE and the stored HST has fewer than 50 windows; never on BLOCK,
\* nor on CHALLENGE once the stored HST has 50 windows.
C29_HstLearningConditions ==
    [][\A w \in Workers :
         /\ StartsLearning(w, "keyboard_hst") => Finalizes(w)
         /\ Finalizes(w) =>
              LET d == req'[w].decision
                  s == req'[w].sess
                  cold == \/ ~models["keyboard_hst"].exists
                          \/ models["keyboard_hst"].feature_window_count < 50
              IN  StartsLearning(w, "keyboard_hst")
                     <=> /\ kbState.completed_windows # << >>
                         /\ \/ /\ d = "ALLOW"
                               /\ now >= s.learning_suspended_until
                               /\ (s.mode = "NORMAL" \/ cold)
                            \/ (d = "CHALLENGE" /\ cold)]_vars

\* an evaluate that decided CHALLENGE in CHALLENGE mode has trained the HST
\* model, which had no row, on its three windows
C29_Witness ==
    \E w \in Workers :
        /\ req[w].pc = "e_learn"
        /\ req[w].plan = "hst_boot"
        /\ req[w].decision = "CHALLENGE"
        /\ req[w].sess.mode = "CHALLENGE"
        /\ lrn[w].pc = "done"
        /\ lrn[w].saved = "true"
        /\ models["keyboard_hst"].feature_window_count = 3

\* worker w's evaluate leaves _finalize_evaluate: it goes on to commit the
\* session, or the handler fails
LeavesFinalize(w) ==
    /\ req[w].kind = "ev"
    /\ req[w].pc \in {"e_compute", "e_learn"}
    /\ req'[w].pc \in {"e_watch", "done"}

\* the conditions under which the identity model is to be trained; r: the
\* request with its decision and finalized session, t: the time
IdentityDue(r, t) ==
    /\ r.decision = "ALLOW"
    /\ r.sess.mode = "NORMAL"
    /\ t >= r.sess.learning_suspended_until
    /\ r.navigator_risk < 500
    /\ r.sess.trust_score >= 650
    /\ r.sess.consecutive_allows >= 5
    /\ t - r.sess.last_context_change_ts >= 30000
    /\ r.kb.completed_windows # << >>

\* C30: an evaluate trains the identity model, on the last (at most 5)
\* completed windows, exactly when it decided ALLOW in NORMAL mode with
\* learning not suspended, navigator_risk < 0.5, trust_score >= 0.65,
\* consecutive_allows >= 5 and at least 30 s since the last context change:
\* it leaves _finalize_evaluate with the identity learning done if and only
\* if these conditions hold.
C30_IdentityLearningConditions ==
    [][\A w \in Workers :
         /\ StartsLearning(w, "keyboard_identity")
               => lrn'[w].inc = Min2(Len(req'[w].kb.completed_windows), 5)
         /\ LeavesFinalize(w) =>
              LET r == IF req[w].pc = "e_learn" THEN req[w] ELSE req'[w]
              IN  IdentityDue(r, now)
                     <=> (req[w].pc = "e_learn" /\ req[w].plan = "identity")
      ]_vars

\* worker w's evaluate returns from the learn_with_retry call of the HST
\* learning on ALLOW
HstAllowLearned(w) ==
    /\ req[w].pc = "e_learn"
    /\ req[w].plan = "hst_allow"
    /\ req'[w].pc # "e_learn"

\* C31: an evaluate that has performed the HST learning on ALLOW stores the
\* keyboard state with completed_windows emptied and last_score 0 and goes on
\* with the remaining finalize steps (audit fields, commit of the session,
\* mark of the eval_id) instead of failing.
C31_HstLearningThenFinalize ==
    [][\A w \in Workers :
         HstAllowLearned(w)
            => /\ kbState'.completed_windows = << >>
               /\ kbState'.last_score = 0
               /\ req'[w].pc \in {"e_learn", "e_watch"}
               /\ req'[w].status # 500]_vars

\* C32: while the session exists, last_keyboard_batch_id and
\* last_mouse_batch_id of the stored session record never decrease, whatever
\* the interleaving of stream writes and evaluates.
C32_BatchIdsNeverDecrease ==
    [][(session.exists /\ session'.exists)
          => /\ session'.last_keyboard_batch_id
                   >= session.last_keyboard_batch_id
             /\ session'.last_mouse_batch_id
                   >= session.last_mouse_batch_id]_vars

\* the strikes _update_strikes adds for a decision, in half strikes
StrikeIncrement(decision) ==
    IF decision = "BLOCK" THEN STRIKES_PER_BLOCK
    ELSE IF decision = "CHALLENGE" THEN STRIKES_PER_CHALLENGE ELSE 0

\* C33: the strike update of a finalized evaluate is applied to the session
\* value current at commit time: when its commit is applied, the stored
\* strikes are the strikes stored just before plus the increment of its
\* decision, so that the increments of two concurrent evaluates are both
\* present afterwards (no time passes, so nothing decays).
C33_UpdatesAppliedToCurrentSession ==
    [][\A w \in Workers :
         (CommitEnds(w) /\ req'[w].committed /\ session.exists)
            => session'.strikes
                  = session.strikes + StrikeIncrement(req[w].decision)]_vars

\* worker w's evaluate of eval_id e has committed its session record and
\* has not yet marked e processed
CommittedUnmarked(w, e) ==
    /\ req[w].kind = "ev"
    /\ req[w].pc = "e_mark"
    /\ req[w].eval_id = e
    /\ req[w].committed

\* C34: of two evaluate requests with the same eval_id that are in progress
\* together, at most one performs the state mutation; the other observes the
\* eval_id as already processed.  So the two never both stand between their
\* commit of the session and their mark of the eval_id.
C34_OneMutationPerEvalId ==
    \A e \in EvalIds :
        \A w1, w2 \in Workers :
            (w1 # w2 /\ CommittedUnmarked(w1, e))
               => ~CommittedUnmarked(w2, e)

\* C35: each completed keyboard window is learned into the user's HST model
\* at most once.  In the decision pipeline the model starts without a row,
\* every window ever emitted stays in completed_windows (no request empties
\* or trims it there), and only evaluates of this session train the model:
\* so the stored feature_window_count never exceeds the number of windows.
C35_WindowsLearnedOnce ==
    models["keyboard_hst"].feature_window_count
        <= Len(kbState.completed_windows)

\* C36: while learning is suspended for a session (the current time is
\* earlier than learning_suspended_until of the session the evaluate
\* finalized), no evaluate of that session starts a learning of the HST
\* model or of the identity model.
C36_NoLearningWhileSuspended ==
    [][\A w \in Workers :
         (\E mt \in ModelTypes : StartsLearning(w, mt))
            => now >= req'[w].sess.learning_suspended_until]_vars

\* C36, amended: while learning is suspended no evaluate trains the
\* identity model and none trains the HST model after an ALLOW; the only
\* learning an evaluate starts then is the cold start bootstrap: decision
\* CHALLENGE, completed windows, and a stored HST that is missing or has
\* fewer than 50 windows.
C36_OnlyBootstrapWhileSuspended ==
    [][\A w \in Workers : \A mt \in ModelTypes :
         (StartsLearning(w, mt)
            /\ now < req'[w].sess.learning_suspended_until)
            => /\ mt = "keyboard_hst"
               /\ req'[w].decision = "CHALLENGE"
               /\ kbState.completed_windows # << >>
               /\ HstIsCold(models["keyboard_hst"])]_vars

\* an evaluate has decided ALLOW for a session with completed windows whose
\* learning is suspended, and goes on to the commit without any learning
C36_Witness ==
    \E w \in Workers :
        /\ req[w].pc = "e_watch"
        /\ req[w].decision = "ALLOW"
        /\ req[w].kb.completed_windows # << >>
        /\ now < req[w].sess.learning_suspended_until
        /\ lrn[w].pc = "idle"
        /\ models["keyboard_hst"] = NoModel

\* C38: learn_with_retry makes at most 3 load -> learn -> save attempts;
\* every attempt works on the row it has just loaded, so an attempt after a
\* version conflict works on a freshly reloaded model; and on success the
\* row it replaced carries the version it loaded and the stored
\* feature_window_count is that row's count plus window_increment
\* (window_increment alone when no row was loaded and a new model was made).
C38_RetryLoop ==
    /\ [](\A l \in Learners : lrn[l].loads <= MODEL_MAX_RETRIES)
    /\ [][\A l \in Learners :
            /\ LearnerLeaves(l, "l_load")
                  => /\ lrn'[l].stored = models[lrn[l].mt]
                     /\ lrn'[l].loads = lrn[l].attempt + 1
            /\ LearnerLeaves(l, "l_save")
                  => LET r == lrn[l]
                         mt == r.mt
                     IN  /\ lrn'[l].pc = "l_load"
                               => /\ lrn'[l].saved = "false"
                                  /\ lrn'[l].attempt < MODEL_MAX_RETRIES
                         /\ lrn'[l].result = "true"
                               => IF r.stored.exists
                                  THEN /\ models[mt].model_version
                                             = r.stored.model_version
                                       /\ models'[mt].feature_window_count
                                             = r.stored.feature_window_count
                                                  + r.inc
                                  ELSE models'[mt].feature_window_count
                                          = r.inc]_vars

\* a learner has succeeded on its third attempt, after two version conflicts
C38_Witness ==
    \E l \in Learners :
        /\ lrn[l].pc = "done"
        /\ lrn[l].result = "true"
        /\ lrn[l].attempt = 2
        /\ lrn[l].loads = 3
        /\ models[lrn[l].mt].feature_window_count
              = lrn[l].stored.feature_window_count + lrn[l].inc

(***************************************************************************)
(* Specification of learning under contention: two evaluates of a session  *)
(* with completed windows in progress together, in one process, and a      *)
(* learner of another process training the same user's models              *)
(***************************************************************************)
MaxSkipReqs == 2
MaxSkipLearns == 3

\* a thread of the other process calls learn_with_retry for the HST model
SkipLearnCall(l) ==
    /\ nlearn < MaxSkipLearns
    /\ LearnCall(l)
    /\ lrn'[l].mt = "keyboard_hst"

InitSkip ==
    /\ InitLearning
    /\ kbState.completed_windows # << >>
    /\ kbState.last_score = 0
    /\ session.consecutive_allows = 0
    /\ session.learning_suspended_until = 0
    /\ session.trust_score = 0
    /\ ~session.identity_ready
    /\ ~trusted
    /\ models["keyboard_identity"] = NoModel

NextSkip ==
    \/ \E w \in Workers :
          StartEvaluate(w, MaxSkipReqs, {""}, {CleanNav, TravelNav}, {0})
    \/ \E w \in Workers : EvalGetSession(w)
    \/ \E w \in Workers : EvalCompute(w)
    \/ \E w \in Workers : EvalAfterLearn(w)
    \/ \E w \in Workers : EvalWatch(w)
    \/ \E w \in Workers : EvalExec(w)
    \/ \E w \in Workers : EvalMark(w)
    \/ SkipLearnCall(3)
    \/ LearnReturn(3)
    \/ \E l \in Learners : LearnAcquire(l)
    \/ \E l \in Learners : LearnLoad(l)
    \/ \E l \in Learners : LearnSave(l)

SpecSkip == InitSkip /\ [][NextSkip]_vars

\* worker w's evaluate returns from a learn_with_retry call that returned
\* False: skipped because the lock was held, or failed after its retries
LearningFailed(w) ==
    /\ req[w].kind = "ev"
    /\ req[w].pc = "e_learn"
    /\ lrn[w].pc = "done"
    /\ lrn[w].result = "false"
    /\ req'[w].pc # "e_learn"

MaxSplitReqs == 4
PressesPerBatch == 20

NextSplit ==
    \/ Quiet /\ Tick
    \/ \E w \in Workers :
          Quiet /\ StartKeyboard(w, MaxSplitReqs, {nreq + 1},
                                 {Typing(PressesPerBatch, nreq + 1)}, {0})
    \/ \E w \in Workers : StreamGetSession(w)
    \/ \E w \in Workers : StreamCreateSession(w)
    \/ \E w \in Workers : KbProcess(w)
    \/ \E w \in Workers : StreamWatch(w)
    \/ \E w \in Workers : KbExec(w)

SpecSplit == Init /\ [][NextSplit]_vars

\* the batch id of the last window stored, 0 when there is none
LastWindowBatch ==
    IF kbState.completed_windows = << >> THEN 0
    ELSE kbState.completed_windows[Len(kbState.completed_windows)].b

\* C39: when the accepted keyboard batches of a session carry at least 50
\* DOWN events since the last emitted window, a window is emitted no later
\* than the batch containing the 50th such DOWN, however the events are
\* split into batches.  Here every accepted batch carries 20 DOWNs and the
\* ids are consecutive, so the batches accepted since the last window (all
\* of them, when there is none) carry fewer than 50 DOWNs.
C39_WindowByFiftiethDown ==
    session.exists
       => PressesPerBatch * (session.last_keyboard_batch_id - LastWindowBatch)
             < WINDOW_SIZE

\* worker w's stream request takes a step that writes to the store: the
\* creation of the session or the commit of its batch
StreamWrites(w) ==
    /\ req[w].kind \in {"kb", "ms"}
    /\ req[w].pc \in {"s_create", "s_exec"}
    /\ req'[w] # req[w]

\* C40: a stream write changes, in the record of an existing session, only
\* its own modality's batch id, last_activity_ts and (for keyboard)
\* keyboard_window_count and keyboard_first_window_ts, and outside it only
\* its own modality's state key; mode, trust_score, consecutive_allows, the
\* audit fields and the other modality's batch id and state stay as they
\* are.
C40_StreamWriteFrame ==
    [][\A w \in Workers :
         (StreamWrites(w) /\ session.exists)
            => IF req[w].kind = "kb"
               THEN /\ session' =
                         [session EXCEPT
                            !.last_keyboard_batch_id =
                                session'.last_keyboard_batch_id,
                            !.last_activity_ts = session'.last_activity_ts,
                            !.keyboard_window_count =
                                session'.keyboard_window_count,
                            !.keyboard_first_window_ts =
                                session'.keyboard_first_window_ts]
                    /\ msState' = msState
               ELSE /\ session' =
                         [session EXCEPT
                            !.last_mouse_batch_id =
                                session'.last_mouse_batch_id,
                            !.last_activity_ts = session'.last_activity_ts]
                    /\ kbState' = kbState]_vars

TypeOK == nreq \in 0..Max2(MaxStreamReqs, MaxCasReqs)

====
